---------------------------- MODULE Spec2Model ----------------------------
(***************************************************************************)
(* Golden-layer pipeline of the Walmart analytics repository:              *)
(* ColumnStandardizer -> DimensionBuilder -> FactBuilder -> warehouse load  *)
(* -> DataQualityChecker / QualityGate.                                     *)
(*                                                                         *)
(* Data frames are explicit row sequences.  A cell is NULL (pandas NaN /   *)
(* None / NaT) or Some(v).  Text that the code inspects character by       *)
(* character (product names, brands) is a sequence of ASCII codes.         *)
(***************************************************************************)
EXTENDS Integers, Sequences, FiniteSets, TLC

(***************************************************************************)
(* Cells and generic sequence helpers                                      *)
(***************************************************************************)
NULL == <<>>

Some(v) == <<v>>

IsNull(c) == Len(c) = 0

Val(c) == c[1]

RECURSIVE SeqSum(_)
SeqSum(s) == IF s = <<>> THEN 0 ELSE Head(s) + SeqSum(Tail(s))

RECURSIVE Flatten(_)
Flatten(ss) == IF ss = <<>> THEN <<>> ELSE Head(ss) \o Flatten(Tail(ss))

SeqFilter(s, Keep(_)) == SelectSeq(s, Keep)

Range(s) == {s[i] : i \in 1..Len(s)}

\* sequences over S of length 0..n
SeqsUpTo(S, n) == UNION {[1..k -> S] : k \in 0..n}

(***************************************************************************)
(* Text: sequences of ASCII codes                                          *)
(***************************************************************************)
SP == 32

IsUpper(ch) == ch >= 65 /\ ch <= 90

IsLowerAlnum(ch) == (ch >= 97 /\ ch <= 122) \/ (ch >= 48 /\ ch <= 57)

IsAlnum(ch) == IsLowerAlnum(ch) \/ IsUpper(ch)

\* str.isspace() on the ASCII range
IsSpace(ch) == ch \in {9, 10, 11, 12, 13, 28, 29, 30, 31, 32}

\* lexicographic order on code sequences (Python str comparison)
RECURSIVE StrLess(_, _)
StrLess(a, b) ==
    IF b = <<>> THEN FALSE
    ELSE IF a = <<>> THEN TRUE
    ELSE IF Head(a) # Head(b) THEN Head(a) < Head(b)
    ELSE StrLess(Tail(a), Tail(b))

(***************************************************************************)
(* normalize_product_name                                                  *)
(***************************************************************************)
\* the text unchanged
LowerMutantNoLower(s) == s

\* str.lower()
Lower(s) == [i \in 1..Len(s) |-> IF IsUpper(s[i]) THEN s[i] + 32 ELSE s[i]]

\* str.strip()
RECURSIVE LStrip(_)
LStrip(s) == IF s # <<>> /\ IsSpace(Head(s)) THEN LStrip(Tail(s)) ELSE s

RECURSIVE RStrip(_)
RStrip(s) ==
    IF s # <<>> /\ IsSpace(s[Len(s)]) THEN RStrip(SubSeq(s, 1, Len(s) - 1)) ELSE s

Strip(s) == RStrip(LStrip(s))

\* re.sub(r"[^a-z0-9]+", " ", s): every maximal run of other characters
\* becomes one blank
RECURSIVE SubNonAlnum(_, _)
SubNonAlnum(s, inRun) ==
    IF s = <<>> THEN <<>>
    ELSE IF IsLowerAlnum(Head(s)) THEN <<Head(s)>> \o SubNonAlnum(Tail(s), FALSE)
    ELSE IF inRun THEN SubNonAlnum(Tail(s), TRUE)
    ELSE <<SP>> \o SubNonAlnum(Tail(s), TRUE)

\* str.split(): the maximal runs of non-whitespace
RECURSIVE SplitWs(_, _)
SplitWs(s, cur) ==
    IF s = <<>> THEN (IF cur = <<>> THEN <<>> ELSE <<cur>>)
    ELSE IF IsSpace(Head(s))
         THEN (IF cur = <<>> THEN <<>> ELSE <<cur>>) \o SplitWs(Tail(s), <<>>)
         ELSE SplitWs(Tail(s), Append(cur, Head(s)))

\* " ".join(parts)
RECURSIVE JoinSp(_)
JoinSp(parts) ==
    IF parts = <<>> THEN <<>>
    ELSE IF Len(parts) = 1 THEN Head(parts)
    ELSE Head(parts) \o <<SP>> \o JoinSp(Tail(parts))

\* name is a cell: NULL stands for every non-str value (NaN, None)
normalize_product_name(name) ==
    IF IsNull(name) THEN <<>>
    ELSE JoinSp(SplitWs(SubNonAlnum(Strip(Lower(Val(name))), FALSE), <<>>))

(***************************************************************************)
(* hashlib.md5(...).hexdigest()[:10] on one 64-byte block.  A 32-bit word  *)
(* is a pair <<hi, lo>> of 16-bit halves, so that no intermediate value    *)
(* leaves the integer range of the checker.                                *)
(***************************************************************************)
RECURSIVE AndBits(_, _)
AndBits(x, y) ==
    IF x = 0 \/ y = 0 THEN 0
    ELSE (x % 2) * (y % 2) + 2 * AndBits(x \div 2, y \div 2)

RECURSIVE XorBits(_, _)
XorBits(x, y) ==
    IF x = 0 THEN y
    ELSE IF y = 0 THEN x
    ELSE ((x + y) % 2) + 2 * XorBits(x \div 2, y \div 2)

\* the bitwise operations on bytes, tabulated
AndByte == [x \in 0..255 |-> [y \in 0..255 |-> AndBits(x, y)]]

XorByte == [x \in 0..255 |-> [y \in 0..255 |-> XorBits(x, y)]]

And16(x, y) == AndByte[x % 256][y % 256] + 256 * AndByte[x \div 256][y \div 256]

Xor16(x, y) == XorByte[x % 256][y % 256] + 256 * XorByte[x \div 256][y \div 256]

Or16(x, y) == x + y - And16(x, y)

Not16(x) == 65535 - x

WAnd(u, v) == <<And16(u[1], v[1]), And16(u[2], v[2])>>

WOr(u, v) == <<Or16(u[1], v[1]), Or16(u[2], v[2])>>

WXor(u, v) == <<Xor16(u[1], v[1]), Xor16(u[2], v[2])>>

WNot(u) == <<Not16(u[1]), Not16(u[2])>>

\* addition modulo 2^32
WAdd(u, v) ==
    LET lo == u[2] + v[2]
    IN  <<(u[1] + v[1] + (lo \div 65536)) % 65536, lo % 65536>>

RECURSIVE Pow2(_)
Pow2(n) == IF n = 0 THEN 1 ELSE 2 * Pow2(n - 1)

\* rotate left by s, 0 < s < 32
WRotl(u, s) ==
    LET w == IF s >= 16 THEN <<u[2], u[1]>> ELSE u
        r == s % 16
        p == Pow2(r)
        q == Pow2(16 - r)
    IN  <<((w[1] * p) % 65536) + (w[2] \div q),
          ((w[2] * p) % 65536) + (w[1] \div q)>>

Md5K ==
    <<
       <<55146, 42104>>, <<59591, 46934>>, <<9248, 28891>>, <<49597, 52974>>,
       <<62844, 4015>>, <<18311, 50730>>, <<43056, 17939>>, <<64838, 38145>>,
       <<27008, 39128>>, <<35652, 63407>>, <<65535, 23473>>, <<35164, 55230>>,
       <<27536, 4386>>, <<64920, 29075>>, <<42617, 17294>>, <<18868, 2081>>,
       <<63006, 9570>>, <<49216, 45888>>, <<9822, 23121>>, <<59830, 51114>>,
       <<54831, 4189>>, <<580, 5203>>, <<55457, 59009>>, <<59347, 64456>>,
       <<8673, 52710>>, <<49975, 2006>>, <<62677, 3463>>, <<17754, 5357>>,
       <<43491, 59653>>, <<64751, 41976>>, <<26479, 729>>, <<36138, 19594>>,
       <<65530, 14658>>, <<34673, 63105>>, <<28061, 24866>>, <<64997, 14348>>,
       <<42174, 59972>>, <<19422, 53161>>, <<63163, 19296>>, <<48831, 48240>>,
       <<10395, 32454>>, <<60065, 10234>>, <<54511, 12421>>, <<1160, 7429>>,
       <<55764, 53305>>, <<59099, 39397>>, <<8098, 31992>>, <<50348, 22117>>,
       <<62505, 8772>>, <<17194, 65431>>, <<43924, 9127>>, <<64659, 41017>>,
       <<25947, 22979>>, <<36620, 52370>>, <<65519, 62589>>, <<34180, 24017>>,
       <<28584, 32335>>, <<65068, 59104>>, <<41729, 17172>>, <<19976, 4513>>,
       <<63315, 32386>>, <<48442, 62005>>, <<10967, 53947>>, <<60294, 54161>>
    >>

Md5Shift ==
    <<7, 12, 17, 22, 7, 12, 17, 22, 7, 12, 17, 22, 7, 12, 17, 22,
      5, 9, 14, 20, 5, 9, 14, 20, 5, 9, 14, 20, 5, 9, 14, 20,
      4, 11, 16, 23, 4, 11, 16, 23, 4, 11, 16, 23, 4, 11, 16, 23,
      6, 10, 15, 21, 6, 10, 15, 21, 6, 10, 15, 21, 6, 10, 15, 21>>

Md5Init == [a |-> <<26437, 8961>>, b |-> <<61389, 43913>>,
            c |-> <<39098, 56574>>, d |-> <<4146, 21622>>]

\* the padded block of a message of at most 55 bytes, as 16 little-endian words
Md5Block(bytes) ==
    LET n == Len(bytes)
        byteAt(k) == IF k <= n THEN bytes[k]
                     ELSE IF k = n + 1 THEN 128
                     ELSE IF k = 57 THEN (8 * n) % 256
                     ELSE IF k = 58 THEN (8 * n) \div 256
                     ELSE 0
    IN  [j \in 1..16 |->
            <<byteAt(4 * j - 1) + 256 * byteAt(4 * j),
              byteAt(4 * j - 3) + 256 * byteAt(4 * j - 2)>>]

\* round i (0-based) of the compression function
Md5Step(st, M, i) ==
    LET f == IF i < 16 THEN WOr(WAnd(st.b, st.c), WAnd(WNot(st.b), st.d))
             ELSE IF i < 32 THEN WOr(WAnd(st.d, st.b), WAnd(WNot(st.d), st.c))
             ELSE IF i < 48 THEN WXor(st.b, WXor(st.c, st.d))
             ELSE WXor(st.c, WOr(st.b, WNot(st.d)))
        g == IF i < 16 THEN i
             ELSE IF i < 32 THEN (5 * i + 1) % 16
             ELSE IF i < 48 THEN (3 * i + 5) % 16
             ELSE (7 * i) % 16
        t == WAdd(WAdd(f, st.a), WAdd(Md5K[i + 1], M[g + 1]))
    IN  [a |-> st.d, d |-> st.c, c |-> st.b,
         b |-> WAdd(st.b, WRotl(t, Md5Shift[i + 1]))]

\* the 64 rounds (the test on st makes each round be evaluated before the next)
RECURSIVE Md5Rounds(_, _, _)
Md5Rounds(st, M, i) ==
    IF st.a # st.a \/ i = 64 THEN st ELSE Md5Rounds(Md5Step(st, M, i), M, i + 1)

HexDigit(v) == IF v < 10 THEN 48 + v ELSE 87 + v

HexByte(b) == <<HexDigit(b \div 16), HexDigit(b % 16)>>

\* the first five digest bytes, as ten lower-case hex digits
Md5Hex10(bytes) ==
    LET st == Md5Rounds(Md5Init, Md5Block(bytes), 0)
        A  == WAdd(Md5Init.a, st.a)
        B  == WAdd(Md5Init.b, st.b)
    IN  HexByte(A[2] % 256) \o HexByte(A[2] \div 256) \o
        HexByte(A[1] % 256) \o HexByte(A[1] \div 256) \o HexByte(B[2] % 256)

(***************************************************************************)
(* build_product_ids                                                       *)
(***************************************************************************)
\* "PROD"
DefaultPrefix == <<80, 82, 79, 68>>

\* _build: None for a name that normalizes to "", else f"{prefix}_{digest}"
BuildIdNoNormalize(name, prefix) ==
    IF IsNull(name) \/ Val(name) = <<>> THEN NULL
    ELSE Some(prefix \o <<95>> \o Md5Hex10(Val(name)))

BuildId(name, prefix) ==
    LET norm == normalize_product_name(name)
    IN  IF norm = <<>> THEN NULL
        ELSE Some(prefix \o <<95>> \o Md5Hex10(norm))

\* series.apply(_build) over a column of cells
build_product_ids(series, prefix) ==
    [i \in 1..Len(series) |-> BuildId(series[i], prefix)]

(***************************************************************************)
(* Calendar arithmetic (datetime / pandas Timestamp).  A date is its       *)
(* proleptic Gregorian ordinal; <<y, m, d>> is its civil form.             *)
(***************************************************************************)
IsLeap(y) == (y % 4 = 0) /\ ((y % 100 # 0) \/ (y % 400 = 0))

DaysInMonth(y, m) ==
    IF m = 2 THEN (IF IsLeap(y) THEN 29 ELSE 28)
    ELSE IF m \in {4, 6, 9, 11} THEN 30 ELSE 31

DaysBeforeYear(y) ==
    LET p == y - 1 IN (p * 365) + (p \div 4) - (p \div 100) + (p \div 400)

RECURSIVE DaysBeforeMonth(_, _)
DaysBeforeMonth(y, m) ==
    IF m = 1 THEN 0 ELSE DaysBeforeMonth(y, m - 1) + DaysInMonth(y, m - 1)

ValidYmd(t) ==
    /\ t[2] >= 1 /\ t[2] <= 12
    /\ t[3] >= 1 /\ t[3] <= DaysInMonth(t[1], t[2])

\* date(y, m, d).toordinal()
Ymd2Ord(t) == DaysBeforeYear(t[1]) + DaysBeforeMonth(t[1], t[2]) + t[3]

\* date.fromordinal(n)
Ord2Ymd(n) ==
    LET n0   == n - 1
        n400 == n0 \div 146097
        r400 == n0 % 146097
        n100 == r400 \div 36524
        r100 == r400 % 36524
        n4   == r100 \div 1461
        r4   == r100 % 1461
        n1   == r4 \div 365
        r1   == r4 % 365
        year == (n400 * 400) + 1 + (n100 * 100) + (n4 * 4) + n1
        m    == CHOOSE k \in 1..12 :
                    /\ DaysBeforeMonth(year, k) <= r1
                    /\ r1 < DaysBeforeMonth(year, k) + DaysInMonth(year, k)
    IN  IF n1 = 4 \/ n100 = 4 THEN <<year - 1, 12, 31>>
        ELSE <<year, m, r1 - DaysBeforeMonth(year, m) + 1>>

\* Timestamp.dayofweek: Monday = 0 ... Sunday = 6
DayOfWeek(n) == (n + 6) % 7

\* strftime("%Y%m%d") read as an integer
DateKey(n) == LET t == Ord2Ymd(n) IN (t[1] * 10000) + (t[2] * 100) + t[3]

\* pd.to_datetime(col, format="%m-%d-%y", errors="coerce") on one cell whose
\* text is mm-dd-yy, given as <<mm, dd, yy>>; NULL is NaT
ParseMdy(c) ==
    IF IsNull(c) THEN NULL
    ELSE LET f == Val(c)
             y == IF f[3] <= 68 THEN 2000 + f[3] ELSE 1900 + f[3]
             t == <<y, f[1], f[2]>>
         IN  IF f[3] >= 0 /\ f[3] <= 99 /\ ValidYmd(t) THEN Some(Ymd2Ord(t)) ELSE NULL

\* pd.to_datetime(col, errors="coerce") on one cell whose text is the ISO
\* form yyyy-mm-dd, given as <<y, m, d>>
ParseIso(c) ==
    IF IsNull(c) THEN NULL
    ELSE IF ValidYmd(Val(c)) THEN Some(Ymd2Ord(Val(c))) ELSE NULL

\* a datetime column as DataFrame.to_csv writes it
IsoCell(c) == IF IsNull(c) THEN NULL ELSE Some(Ord2Ymd(Val(c)))

(***************************************************************************)
(* Data frames and CSV files.  A file that is absent is NoFile; a present  *)
(* file holds the frame pandas reads from it: its column names and rows.   *)
(***************************************************************************)
NoFile == [exists |-> FALSE, cols |-> {}, rows |-> <<>>]

Frame(cols, rows) == [exists |-> TRUE, cols |-> cols, rows |-> rows]

\* the elements of rows at the indices in keep, in row order
SelectIdx(rows, keep) ==
    [k \in 1..Cardinality(keep) |->
        rows[CHOOSE i \in keep : Cardinality({j \in keep : j < i}) = k - 1]]

\* DataFrame.drop_duplicates(subset=...): the first row of each key is kept;
\* missing values compare equal to each other
DropDuplicates(rows, Key(_)) ==
    SelectIdx(rows, {i \in 1..Len(rows) :
                        \A j \in 1..(i - 1) : Key(rows[j]) # Key(rows[i])})

\* Series.duplicated().sum(): every occurrence of a value after its first
DuplicatedCount(cells) == Len(cells) - Cardinality(Range(cells))

\* DataFrame.sort_values(col) on rows whose keys are distinct; Before is
\* the strict order of the keys (missing keys last)
SortRows(rows, Before(_, _)) ==
    [k \in 1..Len(rows) |->
        rows[CHOOSE i \in 1..Len(rows) :
                Cardinality({j \in 1..Len(rows) : Before(rows[j], rows[i])}) = k - 1]]

\* left.merge(right, how="left"): every left row in order, once per matching
\* right row (in right order), or once with the added columns missing.
\* pandas matches a missing key with a missing key.
MergeLeft(left, right, Match(_, _), Added(_), Missing) ==
    Flatten([i \in 1..Len(left) |->
        LET ms == SelectSeq(right, LAMBDA r : Match(left[i], r))
        IN  IF ms = <<>> THEN <<left[i] @@ Missing>>
            ELSE [k \in 1..Len(ms) |-> left[i] @@ Added(ms[k])]])

\* a key column numbered from 0
WithKeyFromZero(rows, key) == [i \in 1..Len(rows) |-> (key :> Some(i - 1)) @@ rows[i]]

\* range(1, len(df) + 1) inserted as column key
WithKey(rows, key) == [i \in 1..Len(rows) |-> (key :> Some(i)) @@ rows[i]]

Column(rows, col) == [i \in 1..Len(rows) |-> rows[i][col]]

\* Series.dropna()
DropNa(cells) == SelectSeq(cells, LAMBDA c : ~IsNull(c))

\* min / max of a non-empty set of integers
SetMin(S) == CHOOSE x \in S : \A y \in S : x <= y

SetMax(S) == CHOOSE x \in S : \A y \in S : x >= y

(***************************************************************************)
(* ColumnStandardizer                                                      *)
(***************************************************************************)
PurchaseCols ==
    {"customer_id", "age", "product_name", "category", "payment_method",
     "purchase_date", "purchase_amount"}

StoreCols == {"store_id", "sale_date", "weekly_sales", "temperature", "fuel_price"}

EcomCols == {"product_name", "brand", "category", "list_price", "sale_price"}

\* standardize_customer_purchases: None when the cleaned file is absent
standardize_customer_purchases(clean) ==
    IF ~clean.exists THEN NoFile
    ELSE LET ids == build_product_ids(Column(clean.rows, "product_name"), DefaultPrefix)
         IN  Frame(clean.cols \cup {"product_id", "source"},
                   [i \in 1..Len(clean.rows) |->
                       [clean.rows[i] EXCEPT
                           !.purchase_date = IsoCell(ParseMdy(@))]
                       @@ [product_id |-> ids[i], source |-> "purchases"]])

\* standardize_store_performance
standardize_store_performance(clean) ==
    IF ~clean.exists THEN NoFile
    ELSE Frame(clean.cols \cup {"source"},
               [i \in 1..Len(clean.rows) |->
                   [clean.rows[i] EXCEPT !.sale_date = IsoCell(ParseIso(@))]
                   @@ [source |-> "store_performance"]])

\* str.split(" \\| ", n=1, expand=True) of one category cell; the text of a
\* category is the sequence of its " | "-separated segments, and a missing
\* category reads back from the CSV as missing
SplitCategory(c) ==
    IF IsNull(c) THEN [root_category |-> NULL, sub_category |-> NULL]
    ELSE [root_category |-> Some(Head(Val(c))),
          sub_category  |-> IF Len(Val(c)) = 1 THEN NULL ELSE Some(Tail(Val(c)))]

\* (list_price - sale_price).clip(lower=0); missing if either price is
DiscountAmount(lp, sp) ==
    IF IsNull(lp) \/ IsNull(sp) THEN NULL
    ELSE IF Val(lp) - Val(sp) < 0 THEN Some(0) ELSE Some(Val(lp) - Val(sp))

\* the width of the significand of a float64, the dtype of the quotient
SignificandBits == 53

\* A float64 that is not negative is the record [m, exp] of value m * 2^exp;
\* the significand m is a natural number below 2^53 written in four limbs of
\* 16 bits, the lowest first.

\* limb j of a natural number written in limbs; the limbs beyond the last are 0
Limb(w, j) == IF j \in 1..Len(w) THEN w[j] ELSE 0

\* bit i of the number, bit 0 the lowest
Bit(w, i) == (Limb(w, (i \div 16) + 1) \div 2^(i % 16)) % 2

\* the number of bits of the number, 0 for zero
BitLength(w) ==
    IF \A j \in 1..Len(w) : w[j] = 0 THEN 0
    ELSE LET t == CHOOSE j \in 1..Len(w) :
                      w[j] # 0 /\ \A i \in (j + 1)..Len(w) : w[i] = 0
         IN  16 * (t - 1) + Cardinality({i \in 0..15 : 2^i <= w[t]})

\* the number without its o lowest bits
ShiftRight(w, o) ==
    LET k == o \div 16
        s == o % 16
    IN  [j \in 1..Len(w) |->
            (Limb(w, j + k) \div 2^s) + ((Limb(w, j + k + 1) % 2^s) * 2^(16 - s))]

\* the successor of a number that is not all ones
LimbsSucc(w) ==
    LET t == CHOOSE j \in 1..Len(w) : w[j] # 65535 /\ \A i \in 1..(j - 1) : w[i] = 65535
    IN  [j \in 1..Len(w) |-> IF j < t THEN 0 ELSE IF j = t THEN w[j] + 1 ELSE w[j]]

\* whether dropping the o lowest bits rounds up: the dropped part is above
\* half a unit, or it is half a unit and the kept part is odd; lost tells that
\* the number written is already short of the exact one
RoundsUp(w, o, lost) ==
    /\ o > 0
    /\ Bit(w, o - 1) = 1
    /\ \/ lost
       \/ Bit(w, o) = 1
       \/ \E i \in 0..(o - 2) : Bit(w, i) = 1

\* the float64 nearest to w * 2^e, the one with the even significand when two
\* are equally near: the rounding of every float64 operation
RoundSignificand(w, e, lost) ==
    LET o    == IF BitLength(w) > SignificandBits
                THEN BitLength(w) - SignificandBits ELSE 0
        keep == ShiftRight(w, o)
        m    == IF RoundsUp(w, o, lost) THEN LimbsSucc(keep) ELSE keep
    IN  IF BitLength(m) > SignificandBits
        THEN [m |-> [j \in 1..4 |-> Limb(ShiftRight(m, 1), j)], exp |-> e + o + 1]
        ELSE [m |-> [j \in 1..4 |-> Limb(m, j)], exp |-> e + o]

\* long division in base 256: the remainders r, (r * 256) % d, ... of n steps
RECURSIVE Remainders(_, _, _)
Remainders(r, d, n) ==
    IF n = 0 THEN <<r>> ELSE <<r>> \o Remainders((r * 256) % d, d, n - 1)

\* the float64 quotient a / d of two integer-valued floats, a >= 0 and d > 0:
\* the integer part and 96 bits after the binary point, twelve digits of base
\* 256, rounded once
FloatQuotient(a, d) ==
    LET r == Remainders(a % d, d, 12)
        digit(k) == (r[k] * 256) \div d
    IN  RoundSignificand(
            [j \in 1..8 |->
                IF j = 8 THEN (a \div d) \div 65536
                ELSE IF j = 7 THEN (a \div d) % 65536
                ELSE digit(14 - 2 * j) + 256 * digit(13 - 2 * j)],
            -96, r[13] # 0)

\* the limbs of k * w + c, k at most 65536
RECURSIVE LimbsTimes(_, _, _)
LimbsTimes(w, k, c) ==
    IF w = <<>> THEN <<c>>
    ELSE <<(k * Head(w) + c) % 65536>>
         \o LimbsTimes(Tail(w), k, (k * Head(w) + c) \div 65536)

\* the float64 product x * k, k a positive integer: the exact product rounded
FloatTimes(x, k) == RoundSignificand(LimbsTimes(x.m, k, 0), x.exp, FALSE)

\* rint: the integer nearest to the float, the even one when two are equally
\* near
Rint(x) ==
    LET w == ShiftRight(x.m, IF x.exp < 0 THEN -x.exp ELSE 0)
        n == w[1] + 65536 * (w[2] + 65536 * (w[3] + 65536 * w[4]))
    IN  IF x.exp >= 0 THEN n * 2^x.exp
        ELSE n + (IF RoundsUp(x.m, -x.exp, FALSE) THEN 1 ELSE 0)

\* round(2) of a float, in hundredths: numpy multiplies by 100 and takes rint
RoundHalfEven(x) == Rint(FloatTimes(x, 100))

\* a float that is a number, kept in hundredths, or infinity
Hundredths(h) == [inf |-> FALSE, hundredths |-> h]

Infinity == [inf |-> TRUE, hundredths |-> 0]

\* ((discount_amount / list_price) * 100).round(2) in float64 arithmetic, each
\* operation rounded: a zero list_price gives NaN for 0 / 0 and infinity for
\* x / 0, x > 0; discount_amount is never negative and the sign of the
\* quotient is the sign of list_price
DiscountPct(amount, lp) ==
    IF IsNull(amount) \/ IsNull(lp) THEN NULL
    ELSE IF Val(lp) = 0 THEN (IF Val(amount) = 0 THEN NULL ELSE Some(Infinity))
    ELSE LET d == IF Val(lp) < 0 THEN -Val(lp) ELSE Val(lp)
             h == RoundHalfEven(FloatTimes(FloatQuotient(Val(amount), d), 100))
         IN  Some(Hundredths(IF Val(lp) < 0 THEN -h ELSE h))

\* standardize_ecommerce_sales
standardize_ecommerce_sales(clean) ==
    IF ~clean.exists THEN NoFile
    ELSE LET ids == build_product_ids(Column(clean.rows, "product_name"), DefaultPrefix)
         IN  Frame(clean.cols \cup {"product_id", "root_category", "sub_category",
                                     "discount_amount", "discount_pct", "source"},
                   [i \in 1..Len(clean.rows) |->
                       clean.rows[i] @@ SplitCategory(clean.rows[i].category)
                       @@ [product_id      |-> ids[i],
                           discount_amount |-> DiscountAmount(clean.rows[i].list_price,
                                                              clean.rows[i].sale_price),
                           discount_pct    |->
                               DiscountPct(DiscountAmount(clean.rows[i].list_price,
                                                          clean.rows[i].sale_price),
                                           clean.rows[i].list_price),
                           source          |-> "ecommerce"]])

\* first_not_null
first_not_null(cells) == IF DropNa(cells) = <<>> THEN NULL ELSE Head(DropNa(cells))

\* build_product_master: one row per non-missing product_id, in the sorted
\* order of the ids (groupby), each attribute the first non-missing value
\* groupby(dropna=False) without the final dropna: the rows without a
\* product_id form a last group
BuildProductMasterKeepingNa(purchases_df) ==
    IF ~purchases_df.exists THEN NoFile
    ELSE LET rows == purchases_df.rows
             ids  == {Val(rows[i].product_id) :
                         i \in {j \in 1..Len(rows) : ~IsNull(rows[j].product_id)}}
             grp(id) == SelectSeq(rows, LAMBDA r : r.product_id = id)
             one(id) == [product_id    |-> id,
                         product_name  |-> first_not_null(Column(grp(id), "product_name")),
                         category_name |-> first_not_null(Column(grp(id), "category")),
                         source        |-> "purchases"]
             sorted == [k \in 1..Cardinality(ids) |->
                           one(Some(CHOOSE id \in ids :
                                   Cardinality({o \in ids : StrLess(o, id)}) = k - 1))]
         IN  Frame({"product_id", "product_name", "category_name", "source"},
                   sorted \o (IF grp(NULL) = <<>> THEN <<>> ELSE <<one(NULL)>>))

build_product_master(purchases_df) ==
    IF ~purchases_df.exists THEN NoFile
    ELSE LET rows == purchases_df.rows
             ids  == {Val(rows[i].product_id) :
                         i \in {j \in 1..Len(rows) : ~IsNull(rows[j].product_id)}}
             grp(id) == SelectSeq(rows, LAMBDA r : r.product_id = Some(id))
             one(id) == [product_id    |-> Some(id),
                         product_name  |-> first_not_null(Column(grp(id), "product_name")),
                         category_name |-> first_not_null(Column(grp(id), "category")),
                         source        |-> "purchases"]
             sorted == [k \in 1..Cardinality(ids) |->
                           one(CHOOSE id \in ids :
                                   Cardinality({o \in ids : StrLess(o, id)}) = k - 1)]
         IN  Frame({"product_id", "product_name", "category_name", "source"}, sorted)

(***************************************************************************)
(* DimensionBuilder.  Each builder takes the standardized files it loads   *)
(* and yields the dimension it writes, or NoFile where the code returns    *)
(* None and writes nothing.                                                *)
(***************************************************************************)
build_dim_product(master) ==
    IF ~master.exists THEN NoFile
    ELSE Frame({"product_key", "product_id", "product_name", "category_name"},
               WithKey([i \in 1..Len(master.rows) |->
                           [product_id    |-> master.rows[i].product_id,
                            product_name  |-> master.rows[i].product_name,
                            category_name |-> master.rows[i].category_name]],
                       "product_key"))

\* pd.cut(age, bins=[0, 18, 30, 45, 60, 120], labels=[...]): right-closed bins
AgeGroup(age) ==
    IF IsNull(age) THEN NULL
    ELSE LET a == Val(age)
         IN  IF a <= 0 \/ a > 120 THEN NULL
             ELSE IF a <= 18 THEN Some("<18")
             ELSE IF a <= 30 THEN Some("18-30")
             ELSE IF a <= 45 THEN Some("31-45")
             ELSE IF a <= 60 THEN Some("46-60")
             ELSE Some("60+")

build_dim_customer(purchases) ==
    IF ~purchases.exists THEN NoFile
    ELSE LET picked == [i \in 1..Len(purchases.rows) |->
                           [customer_id |-> purchases.rows[i].customer_id,
                            age         |-> purchases.rows[i].age]]
             dedup  == DropDuplicates(picked, LAMBDA r : r.customer_id)
             keyed  == WithKey(dedup, "customer_key")
         IN  Frame({"customer_key", "customer_id", "age", "age_group"},
                   [i \in 1..Len(keyed) |->
                       keyed[i] @@ [age_group |-> AgeGroup(keyed[i].age)]])

\* one calendar row
CalendarRow(n) ==
    LET t == Ord2Ymd(n)
    IN  [date_key    |-> Some(DateKey(n)),
         full_date   |-> Some(t),
         day         |-> t[3],
         day_of_week |-> DayOfWeek(n) + 1,
         is_weekend  |-> IF DayOfWeek(n) >= 5 THEN 1 ELSE 0,
         month       |-> t[2],
         quarter     |-> ((t[2] - 1) \div 3) + 1,
         year        |-> t[1]]

CalendarCols ==
    {"date_key", "full_date", "day", "day_of_week", "is_weekend", "month",
     "quarter", "year"}

\* pd.date_range(start, end, freq="D"): both ends included
DateRangeOpenEnd(start, end) == [i \in 1..(end - start) |-> start + i - 1]

date_range(start, end) == [i \in 1..(end - start + 1) |-> start + i - 1]

CalendarFrame(start, end) ==
    LET days == date_range(start, end)
    IN  Frame(CalendarCols, [i \in 1..Len(days) |-> CalendarRow(days[i])])

\* the parseable dates of a date column, as a set of ordinals
ParsedDates(rows, col) ==
    {Val(ParseIso(rows[i][col])) :
        i \in {j \in 1..Len(rows) : ~IsNull(ParseIso(rows[j][col]))}}

DefaultStart == Ymd2Ord(<<2020, 1, 1>>)

DefaultEnd == Ymd2Ord(<<2030, 12, 31>>)

build_dim_date(purchases) ==
    LET dates == IF purchases.exists /\ "purchase_date" \in purchases.cols
                 THEN ParsedDates(purchases.rows, "purchase_date") ELSE {}
    IN  IF dates = {} THEN CalendarFrame(DefaultStart, DefaultEnd)
        ELSE CalendarFrame(SetMin(dates) - 30, SetMax(dates) + 90)

\* Series.dropna().unique(): the distinct values in order of first appearance
build_dim_payment(purchases) ==
    IF ~purchases.exists THEN NoFile
    ELSE LET methods == DropDuplicates(DropNa(Column(purchases.rows, "payment_method")),
                                       LAMBDA c : c)
         IN  Frame({"payment_key", "payment_method"},
                   [i \in 1..Len(methods) |->
                       [payment_key |-> Some(i), payment_method |-> methods[i]]])

build_dim_category(walmart, purchases) ==
    LET f1 == IF walmart.exists
              THEN DropDuplicates(
                       [i \in 1..Len(walmart.rows) |->
                           [category_name      |-> walmart.rows[i].category_name,
                            root_category_name |-> walmart.rows[i].root_category_name]],
                       LAMBDA r : r)
              ELSE <<>>
        f2 == IF purchases.exists
              THEN DropDuplicates(
                       [i \in 1..Len(purchases.rows) |->
                           [category_name      |-> purchases.rows[i].category,
                            root_category_name |-> NULL]],
                       LAMBDA r : r.category_name)
              ELSE <<>>
    IN  IF ~walmart.exists /\ ~purchases.exists THEN NoFile
        ELSE Frame({"category_key", "category_name", "root_category_name"},
                   WithKey(DropDuplicates(f1 \o f2, LAMBDA r : r.category_name),
                           "category_key"))

\* ascending, missing values last
CellLess(a, b) == ~IsNull(a) /\ (IsNull(b) \/ Val(a) < Val(b))

build_dim_store(store) ==
    IF ~store.exists THEN NoFile
    ELSE LET ids == DropDuplicates(
                        [i \in 1..Len(store.rows) |-> [store_id |-> store.rows[i].store_id]],
                        LAMBDA r : r.store_id)
             srt == SortRows(ids, LAMBDA a, b : CellLess(a.store_id, b.store_id))
         IN  Frame({"store_key", "store_id"}, WithKey(srt, "store_key"))

\* build_dim_date_store falling back to the default range of build_dim_date
BuildDimDateStoreWithDefault(store) ==
    IF ~store.exists THEN NoFile
    ELSE LET dates == ParsedDates(store.rows, "sale_date")
         IN  IF dates = {} THEN CalendarFrame(DefaultStart, DefaultEnd)
             ELSE CalendarFrame(SetMin(dates), SetMax(dates))

build_dim_date_store(store) ==
    IF ~store.exists THEN NoFile
    ELSE LET dates == ParsedDates(store.rows, "sale_date")
         IN  IF dates = {} THEN NoFile
             ELSE CalendarFrame(SetMin(dates), SetMax(dates))

build_dim_temperature ==
    Frame({"temp_category_key", "temp_category", "temp_range_min", "temp_range_max"},
          <<[temp_category_key |-> Some(1), temp_category |-> "Freezing",
             temp_range_min |-> -999, temp_range_max |-> 32],
            [temp_category_key |-> Some(2), temp_category |-> "Cold",
             temp_range_min |-> 32, temp_range_max |-> 50],
            [temp_category_key |-> Some(3), temp_category |-> "Cool",
             temp_range_min |-> 50, temp_range_max |-> 70],
            [temp_category_key |-> Some(4), temp_category |-> "Warm",
             temp_range_min |-> 70, temp_range_max |-> 85],
            [temp_category_key |-> Some(5), temp_category |-> "Hot",
             temp_range_min |-> 85, temp_range_max |-> 999]>>)

\* the five selected columns of an e-commerce row
EcomProductRow(r) ==
    [product_id    |-> r.product_id,
     product_name  |-> r.product_name,
     brand         |-> r.brand,
     root_category |-> r.root_category,
     sub_category  |-> r.sub_category]

\* drop_duplicates() without subset: whole rows are compared
build_dim_ecommerce_product(ecom) ==
    IF ~ecom.exists THEN NoFile
    ELSE Frame({"ecommerce_product_key", "product_id", "product_name", "brand",
                "root_category", "sub_category"},
               WithKey(DropDuplicates([i \in 1..Len(ecom.rows) |->
                                          EcomProductRow(ecom.rows[i])],
                                      LAMBDA r : r),
                       "ecommerce_product_key"))

build_dim_ecommerce_category(ecom) ==
    IF ~ecom.exists THEN NoFile
    ELSE Frame({"ecommerce_category_key", "root_category", "sub_category"},
               WithKey(DropDuplicates(
                           [i \in 1..Len(ecom.rows) |->
                               [root_category |-> ecom.rows[i].root_category,
                                sub_category  |-> ecom.rows[i].sub_category]],
                           LAMBDA r : r),
                       "ecommerce_category_key"))

build_dim_ecommerce_brand(ecom) ==
    IF ~ecom.exists THEN NoFile
    ELSE LET brands == DropNa(DropDuplicates(Column(ecom.rows, "brand"), LAMBDA c : c))
             cells  == SortRows(brands, LAMBDA a, b : StrLess(Val(a), Val(b)))
         IN  Frame({"brand_key", "brand"},
                   [i \in 1..Len(cells) |-> [brand_key |-> Some(i), brand |-> cells[i]]])

(***************************************************************************)
(* FactBuilder.  A builder yields [st |-> "ok", file |-> the fact written],*)
(* [st |-> "none"] where the code returns None, or [st |-> "raise"] where  *)
(* selecting the final columns raises KeyError because a dimension file    *)
(* was not loaded and its key column was never joined in.                  *)
(***************************************************************************)
FactOk(cols, rows) == [st |-> "ok", file |-> Frame(cols, rows)]

FactNone == [st |-> "none", file |-> NoFile]

FactRaise == [st |-> "raise", file |-> NoFile]

\* strftime("%Y%m%d") -> to_numeric -> fillna(-1) of a parsed date cell
DateKeyCell(c) == IF IsNull(ParseIso(c)) THEN Some(-1) ELSE Some(DateKey(Val(ParseIso(c))))

\* a foreign key left as the join produced it
FillKeyKeepNull(c) == c

\* fillna(-1).astype(int)
FillKey(c) == IF IsNull(c) THEN Some(-1) ELSE c

\* fillna(0.0)
FillZero(c) == IF IsNull(c) THEN Some(0) ELSE c

\* to_numeric(...).fillna(0.0) of a discount_pct cell: NaN becomes 0.0, an
\* infinity stays
FillPct(c) == IF IsNull(c) THEN Some(Hundredths(0)) ELSE c

\* the fact primary key numbered from 0
FactIdFromZero(rows, key) == [i \in 1..Len(rows) |-> (key :> Some(i - 1)) @@ rows[i]]

\* fact.insert(0, key, range(1, len(fact) + 1)), after the joins
FactId(rows, key) == WithKey(rows, key)

build_fact_sales(purchases, dim_product, dim_customer, dim_payment, dim_category) ==
    IF ~purchases.exists THEN FactNone
    ELSE IF ~(dim_product.exists /\ dim_customer.exists
              /\ dim_payment.exists /\ dim_category.exists) THEN FactRaise
    ELSE LET f0 == [i \in 1..Len(purchases.rows) |->
                       purchases.rows[i]
                       @@ [date_key |-> DateKeyCell(purchases.rows[i].purchase_date)]]
             f1 == MergeLeft(f0, dim_product.rows,
                             LAMBDA l, r : l.product_id = r.product_id,
                             LAMBDA r : [product_key |-> r.product_key],
                             [product_key |-> NULL])
             f2 == MergeLeft(f1, dim_customer.rows,
                             LAMBDA l, r : l.customer_id = r.customer_id,
                             LAMBDA r : [customer_key |-> r.customer_key],
                             [customer_key |-> NULL])
             f3 == MergeLeft(f2, dim_payment.rows,
                             LAMBDA l, r : l.payment_method = r.payment_method,
                             LAMBDA r : [payment_key |-> r.payment_key],
                             [payment_key |-> NULL])
             f4 == MergeLeft(f3, dim_category.rows,
                             LAMBDA l, r : l.category = r.category_name,
                             LAMBDA r : [category_key |-> r.category_key],
                             [category_key |-> NULL])
             f5 == FactId(f4, "sale_id")
         IN  FactOk({"sale_id", "date_key", "customer_key", "product_key",
                     "payment_key", "category_key", "purchase_amount"},
                    [i \in 1..Len(f5) |->
                        [sale_id         |-> f5[i].sale_id,
                         date_key        |-> f5[i].date_key,
                         customer_key    |-> FillKey(f5[i].customer_key),
                         product_key     |-> FillKey(f5[i].product_key),
                         payment_key     |-> FillKey(f5[i].payment_key),
                         category_key    |-> FillKey(f5[i].category_key),
                         purchase_amount |-> FillZero(f5[i].purchase_amount)]])

\* get_temp_category
get_temp_category(temp) ==
    IF IsNull(temp) THEN Some(-1)
    ELSE IF Val(temp) < 32 THEN Some(1)
    ELSE IF Val(temp) < 50 THEN Some(2)
    ELSE IF Val(temp) < 70 THEN Some(3)
    ELSE IF Val(temp) < 85 THEN Some(4)
    ELSE Some(5)

build_fact_store_performance(store, dim_store) ==
    IF ~store.exists THEN FactNone
    ELSE IF ~dim_store.exists THEN FactRaise
    ELSE LET f0 == [i \in 1..Len(store.rows) |->
                       store.rows[i]
                       @@ [date_key |-> DateKeyCell(store.rows[i].sale_date)]]
             f1 == MergeLeft(f0, dim_store.rows,
                             LAMBDA l, r : l.store_id = r.store_id,
                             LAMBDA r : [store_key |-> r.store_key],
                             [store_key |-> NULL])
             f2 == FactId(f1, "performance_id")
         IN  FactOk({"performance_id", "date_key", "store_key", "temp_category_key",
                     "weekly_sales", "temperature", "fuel_price"},
                    [i \in 1..Len(f2) |->
                        [performance_id    |-> f2[i].performance_id,
                         date_key          |-> f2[i].date_key,
                         store_key         |-> FillKey(f2[i].store_key),
                         temp_category_key |-> FillKey(get_temp_category(f2[i].temperature)),
                         weekly_sales      |-> FillZero(f2[i].weekly_sales),
                         temperature       |-> FillZero(f2[i].temperature),
                         fuel_price        |-> FillZero(f2[i].fuel_price)]])

build_fact_ecommerce_sales(ecom, dim_product, dim_category, dim_brand) ==
    IF ~ecom.exists THEN FactNone
    ELSE IF ~(dim_product.exists /\ dim_category.exists /\ dim_brand.exists)
         THEN FactRaise
    ELSE LET f0 == ecom.rows
             f1 == MergeLeft(f0, dim_product.rows,
                             LAMBDA l, r : l.product_id = r.product_id,
                             LAMBDA r : [ecommerce_product_key |-> r.ecommerce_product_key],
                             [ecommerce_product_key |-> NULL])
             f2 == MergeLeft(f1, dim_category.rows,
                             LAMBDA l, r : /\ l.root_category = r.root_category
                                           /\ l.sub_category = r.sub_category,
                             LAMBDA r : [ecommerce_category_key |-> r.ecommerce_category_key],
                             [ecommerce_category_key |-> NULL])
             f3 == MergeLeft(f2, dim_brand.rows,
                             LAMBDA l, r : l.brand = r.brand,
                             LAMBDA r : [brand_key |-> r.brand_key],
                             [brand_key |-> NULL])
             f4 == FactId(f3, "ecommerce_sale_id")
         IN  FactOk({"ecommerce_sale_id", "ecommerce_product_key",
                     "ecommerce_category_key", "brand_key", "list_price",
                     "sale_price", "discount_amount", "discount_pct"},
                    [i \in 1..Len(f4) |->
                        [ecommerce_sale_id      |-> f4[i].ecommerce_sale_id,
                         ecommerce_product_key  |-> FillKey(f4[i].ecommerce_product_key),
                         ecommerce_category_key |-> FillKey(f4[i].ecommerce_category_key),
                         brand_key              |-> FillKey(f4[i].brand_key),
                         list_price             |-> FillZero(f4[i].list_price),
                         sale_price             |-> FillZero(f4[i].sale_price),
                         discount_amount        |-> FillZero(f4[i].discount_amount),
                         discount_pct           |-> FillPct(f4[i].discount_pct)]])

(***************************************************************************)
(* DataQualityChecker.  A check yields [ret |-> its return value,          *)
(* results |-> the QualityCheckResults it adds to the report, in order].   *)
(***************************************************************************)
NoDetails == [empty |-> TRUE]

Result(name, column, stage, table, passed, details) ==
    [check_name |-> name, column |-> column, stage |-> stage,
     table_name |-> table, passed |-> passed, details |-> details]

Checked(ret, results) == [ret |-> ret, results |-> results]

\* two checks in sequence, all_passed &= ...
\* all_passed = ... in place of all_passed &= ...
BothKeepingLast(a, b) == [ret |-> b.ret, results |-> a.results \o b.results]

Both(a, b) == [ret |-> a.ret /\ b.ret, results |-> a.results \o b.results]

RECURSIVE AllOf(_)
AllOf(checks) ==
    IF checks = <<>> THEN Checked(TRUE, <<>>)
    ELSE Both(Head(checks), AllOf(Tail(checks)))

check_file_exists(file, stage, table) ==
    Checked(file.exists,
            <<Result("file_exists", "", stage, table, file.exists, NoDetails)>>)

check_row_count(df, stage, table, min_rows) ==
    Checked(Len(df.rows) >= min_rows,
            <<Result("row_count", "", stage, table, Len(df.rows) >= min_rows,
                     [row_count |-> Len(df.rows), min_required |-> min_rows])>>)

NullCount(df, col) == Len(SelectSeq(Column(df.rows, col), IsNull))

\* null_count / len(df) <= max_null_ratio, the ratio given in percent
\* the ratio compared with < in place of <=
NullRatioBelow(df, col, max_pct) ==
    IF Len(df.rows) > 0 THEN NullCount(df, col) * 100 < max_pct * Len(df.rows)
    ELSE TRUE

NullRatioOk(df, col, max_pct) ==
    IF Len(df.rows) > 0 THEN NullCount(df, col) * 100 <= max_pct * Len(df.rows)
    ELSE TRUE

DefaultMaxNullPct == 5

check_null_ratio(df, stage, table, critical_columns, max_pct) ==
    AllOf([i \in 1..Len(critical_columns) |->
        LET col == critical_columns[i]
        IN  IF col \notin df.cols THEN Checked(TRUE, <<>>)
            ELSE Checked(NullRatioOk(df, col, max_pct),
                         <<Result("null_check", col, stage, table,
                                  NullRatioOk(df, col, max_pct),
                                  [null_count |-> NullCount(df, col)])>>)])

check_unique_key(df, stage, table, key_column) ==
    IF key_column \notin df.cols
    THEN Checked(FALSE, <<Result("unique_key", key_column, stage, table, FALSE, NoDetails)>>)
    ELSE LET duplicates == DuplicatedCount(Column(df.rows, key_column))
         IN  Checked(duplicates = 0,
                     <<Result("unique_key", key_column, stage, table, duplicates = 0,
                              [duplicates |-> duplicates])>>)

\* check_foreign_key without the (fact_keys != -1) exclusion
CheckForeignKeyNoSentinelExclusion(fact_df, dim_df, fk_column, pk_column, stage, fact_name) ==
    IF fk_column \notin fact_df.cols
    THEN Checked(FALSE, <<Result("fk_integrity", fk_column, stage, fact_name, FALSE, NoDetails)>>)
    ELSE LET valid_keys == Range(DropNa(Column(dim_df.rows, pk_column)))
             fact_keys  == DropNa(Column(fact_df.rows, fk_column))
             orphan_count == Len(SelectSeq(fact_keys, LAMBDA c : c \notin valid_keys))
             sentinel_count ==
                 Len(SelectSeq(Column(fact_df.rows, fk_column), LAMBDA c : c = Some(-1)))
             ok == orphan_count = 0 /\ sentinel_count = 0
         IN  Checked(ok, <<Result("fk_integrity", fk_column, stage, fact_name, ok,
                                  [orphan_count |-> orphan_count,
                                   sentinel_count |-> sentinel_count])>>)

check_foreign_key(fact_df, dim_df, fk_column, pk_column, stage, fact_name) ==
    IF fk_column \notin fact_df.cols
    THEN Checked(FALSE, <<Result("fk_integrity", fk_column, stage, fact_name, FALSE, NoDetails)>>)
    ELSE LET valid_keys == Range(DropNa(Column(dim_df.rows, pk_column)))
             fact_keys  == DropNa(Column(fact_df.rows, fk_column))
             orphan_count ==
                 Len(SelectSeq(fact_keys, LAMBDA c : c \notin valid_keys /\ Val(c) # -1))
             sentinel_count ==
                 Len(SelectSeq(Column(fact_df.rows, fk_column), LAMBDA c : c = Some(-1)))
             ok == orphan_count = 0 /\ sentinel_count = 0
         IN  Checked(ok, <<Result("fk_integrity", fk_column, stage, fact_name, ok,
                                  [orphan_count |-> orphan_count,
                                   sentinel_count |-> sentinel_count])>>)

\* min_val only: every caller passes min_val=0 and no max_val
check_data_range(df, stage, table, column, min_val) ==
    IF column \notin df.cols THEN Checked(TRUE, <<>>)
    ELSE LET below_min == Len(SelectSeq(DropNa(Column(df.rows, column)),
                                        LAMBDA c : Val(c) < min_val))
         IN  Checked(below_min = 0,
                     <<Result("data_range", column, stage, table, below_min = 0,
                              NoDetails)>>)

check_schema(df, stage, table, expected_columns) ==
    LET missing == SelectSeq(expected_columns, LAMBDA c : c \notin df.cols)
    IN  Checked(missing = <<>>,
                <<Result("schema_validation", "", stage, table, missing = <<>>,
                         [missing_columns |-> missing])>>)

(***************************************************************************)
(* Stage validators                                                        *)
(***************************************************************************)
RawFiles ==
    <<[name |-> "cleaned_products_API",
       critical |-> <<"us_item_id", "product_name", "list_price">>],
      [name |-> "marketing_data",
       critical |-> <<"customer_id", "purchase_amount", "product_category">>],
      [name |-> "Walmart_customer_purchases",
       critical |-> <<"customer_id", "purchase_amount", "product_category">>],
      [name |-> "walmart_products",
       critical |-> <<"product_id", "product_name", "category">>]>>

RawNames == {RawFiles[i].name : i \in 1..Len(RawFiles)}

\* unique_key "" stands for None
SilverFiles ==
    <<[name |-> "cleaned_cleaned_products_API",
       critical |-> <<"us_item_id", "product_name">>, unique_key |-> "us_item_id"],
      [name |-> "cleaned_marketing_data",
       critical |-> <<"customer_id", "purchase_amount">>, unique_key |-> ""],
      [name |-> "cleaned_Walmart_customer_purchases",
       critical |-> <<"customer_id", "purchase_amount">>, unique_key |-> ""],
      [name |-> "cleaned_walmart_products",
       critical |-> <<"product_id", "product_name">>, unique_key |-> "product_id"]>>

CleanNames ==
    {SilverFiles[i].name : i \in 1..Len(SilverFiles)}
        \cup {"cleaned_Temp", "cleaned_tmdt_walmart"}

RawMinRows == 100

validate_raw_layer(raw) ==
    AllOf([i \in 1..Len(RawFiles) |->
        LET f  == RawFiles[i]
            df == raw[f.name]
            fe == check_file_exists(df, "raw", f.name)
        IN  IF ~fe.ret THEN Checked(FALSE, fe.results)
            ELSE Both(fe, Both(check_row_count(df, "raw", f.name, RawMinRows),
                               check_null_ratio(df, "raw", f.name, f.critical,
                                                DefaultMaxNullPct)))])

validate_silver_layer(clean) ==
    AllOf([i \in 1..Len(SilverFiles) |->
        LET f  == SilverFiles[i]
            df == clean[f.name]
            fe == check_file_exists(df, "silver", f.name)
        IN  IF ~fe.ret THEN Checked(FALSE, fe.results)
            ELSE AllOf(<<fe,
                         check_row_count(df, "silver", f.name, 1),
                         check_null_ratio(df, "silver", f.name, f.critical,
                                          DefaultMaxNullPct),
                         IF f.unique_key # ""
                         THEN check_unique_key(df, "silver", f.name, f.unique_key)
                         ELSE Checked(TRUE, <<>>)>>)])

DimSpecs ==
    <<[name |-> "DIM_DATE", pk |-> "date_key",
       critical |-> <<"date_key", "full_date", "year", "month">>],
      [name |-> "DIM_DATE_STORE", pk |-> "date_key",
       critical |-> <<"date_key", "full_date">>],
      [name |-> "DIM_CUSTOMER", pk |-> "customer_key",
       critical |-> <<"customer_key", "customer_id">>],
      [name |-> "DIM_PRODUCT", pk |-> "product_key",
       critical |-> <<"product_key", "product_name">>],
      [name |-> "DIM_PAYMENT", pk |-> "payment_key",
       critical |-> <<"payment_key", "payment_method">>],
      [name |-> "DIM_CATEGORY", pk |-> "category_key",
       critical |-> <<"category_key", "category_name">>],
      [name |-> "DIM_STORE", pk |-> "store_key",
       critical |-> <<"store_key", "store_id">>],
      [name |-> "DIM_TEMPERATURE", pk |-> "temp_category_key",
       critical |-> <<"temp_category_key", "temp_category">>],
      [name |-> "DIM_ECOMMERCE_PRODUCT", pk |-> "ecommerce_product_key",
       critical |-> <<"ecommerce_product_key", "product_name">>],
      [name |-> "DIM_ECOMMERCE_CATEGORY", pk |-> "ecommerce_category_key",
       critical |-> <<"ecommerce_category_key", "root_category">>],
      [name |-> "DIM_ECOMMERCE_BRAND", pk |-> "brand_key",
       critical |-> <<"brand_key", "brand">>]>>

DimNames == {DimSpecs[i].name : i \in 1..Len(DimSpecs)}

\* fks: <<fk column, dimension, pk column>>; ranged: the measures whose name
\* contains "amount", "price" or "sales"
FactSpecs ==
    <<[name |-> "FACT_SALES", pk |-> "sale_id",
       fks |-> <<<<"date_key", "DIM_DATE", "date_key">>,
                 <<"customer_key", "DIM_CUSTOMER", "customer_key">>,
                 <<"product_key", "DIM_PRODUCT", "product_key">>,
                 <<"payment_key", "DIM_PAYMENT", "payment_key">>,
                 <<"category_key", "DIM_CATEGORY", "category_key">>>>,
       ranged |-> <<"purchase_amount">>],
      [name |-> "FACT_STORE_PERFORMANCE", pk |-> "performance_id",
       fks |-> <<<<"date_key", "DIM_DATE_STORE", "date_key">>,
                 <<"store_key", "DIM_STORE", "store_key">>,
                 <<"temp_category_key", "DIM_TEMPERATURE", "temp_category_key">>>>,
       ranged |-> <<"weekly_sales", "fuel_price">>],
      [name |-> "FACT_ECOMMERCE_SALES", pk |-> "ecommerce_sale_id",
       fks |-> <<<<"ecommerce_product_key", "DIM_ECOMMERCE_PRODUCT", "ecommerce_product_key">>,
                 <<"ecommerce_category_key", "DIM_ECOMMERCE_CATEGORY", "ecommerce_category_key">>,
                 <<"brand_key", "DIM_ECOMMERCE_BRAND", "brand_key">>>>,
       ranged |-> <<"list_price", "sale_price", "discount_amount">>]>>

FactNames == {FactSpecs[i].name : i \in 1..Len(FactSpecs)}

validate_golden_dims(dims) ==
    AllOf([i \in 1..Len(DimSpecs) |->
        LET d  == DimSpecs[i]
            df == dims[d.name]
            fe == check_file_exists(df, "golden_dim", d.name)
        IN  IF ~fe.ret THEN Checked(FALSE, fe.results)
            ELSE AllOf(<<fe,
                         check_row_count(df, "golden_dim", d.name, 1),
                         check_unique_key(df, "golden_dim", d.name, d.pk),
                         check_schema(df, "golden_dim", d.name, d.critical)>>)])

validate_golden_facts(dims, facts) ==
    AllOf([i \in 1..Len(FactSpecs) |->
        LET f  == FactSpecs[i]
            df == facts[f.name]
            fe == check_file_exists(df, "golden_fact", f.name)
        IN  IF ~fe.ret THEN Checked(FALSE, fe.results)
            ELSE AllOf(<<fe,
                         check_row_count(df, "golden_fact", f.name, 1),
                         check_unique_key(df, "golden_fact", f.name, f.pk),
                         AllOf([k \in 1..Len(f.fks) |->
                             IF dims[f.fks[k][2]].exists
                             THEN check_foreign_key(df, dims[f.fks[k][2]], f.fks[k][1],
                                                    f.fks[k][3], "golden_fact", f.name)
                             ELSE Checked(TRUE, <<>>)]),
                         AllOf([k \in 1..Len(f.ranged) |->
                             check_data_range(df, "golden_fact", f.name,
                                              f.ranged[k], 0)])>>)])

\* validate_golden_layer returning the verdict of its fact loop alone
ValidateGoldenLayerFactVerdict(dims, facts) ==
    Checked(validate_golden_facts(dims, facts).ret,
            validate_golden_dims(dims).results \o validate_golden_facts(dims, facts).results)

validate_golden_layer(dims, facts) ==
    Both(validate_golden_dims(dims), validate_golden_facts(dims, facts))

\* run_all_checks: the three stages in order, into one report
run_all_checks(raw, clean, dims, facts) ==
    validate_raw_layer(raw).results
        \o validate_silver_layer(clean).results
        \o validate_golden_layer(dims, facts).results

\* QualityReport.passed
\* passed decided by the first result alone
ReportPassedFirstOnly(results) == results = <<>> \/ results[1].passed

ReportPassed(results) == \A i \in 1..Len(results) : results[i].passed

(***************************************************************************)
(* QualityGate.  An entry point yields the results the checker recorded,   *)
(* and whether it raised QualityGateError or returned.                     *)
(***************************************************************************)
GateModes == {"warn", "fail"}

\* _handle_result
HandleResult(passed, mode) == IF ~passed /\ mode = "fail" THEN "raised" ELSE "returned"

pre_silver_check(mode, raw) ==
    LET v == validate_raw_layer(raw)
    IN  [outcome |-> HandleResult(v.ret, mode), results |-> v.results]

post_silver_check(mode, raw, clean) ==
    LET r == validate_raw_layer(raw)
        v == validate_silver_layer(clean)
    IN  [outcome |-> HandleResult(v.ret, mode), results |-> r.results \o v.results]

post_golden_check(mode, dims, facts) ==
    LET v == validate_golden_layer(dims, facts)
    IN  [outcome |-> HandleResult(v.ret, mode), results |-> v.results]

full_pipeline_check(mode, raw, clean, dims, facts) ==
    [outcome |-> "returned", results |-> run_all_checks(raw, clean, dims, facts)]

(***************************************************************************)
(* Input data.  Files hold the columns the pipeline and the checks read;   *)
(* the other columns of the real CSVs are carried through unchanged and    *)
(* are left out.  Text that is hashed or sorted is a sequence of character *)
(* codes; a date cell holds the numbers of its text.                       *)
(***************************************************************************)
MaxRows == 3

NonEmptySeqs(S, n) == SeqsUpTo(S, n) \ {<<>>}

\* "Sony TV", "sony  tv", "SONY-TV", "Lamp"
NameSonyTV == <<83, 111, 110, 121, 32, 84, 86>>

NameSonySpaced == <<115, 111, 110, 121, 32, 32, 116, 118>>

NameSonyDash == <<83, 79, 78, 89, 45, 84, 86>>

NameLamp == <<76, 97, 109, 112>>

\* "Sony", "Ikea"
BrandSony == <<83, 111, 110, 121>>

BrandIkea == <<73, 107, 101, 97>>

\* rows of cleaned_Walmart_customer_purchases.csv; purchase_date is the
\* <<mm, dd, yy>> of its "%m-%d-%y" text
PurchasePool ==
    {[customer_id |-> Some(1), age |-> Some(25), product_name |-> Some(NameSonyTV),
      category |-> Some("Electronics"), payment_method |-> Some("Card"),
      purchase_date |-> Some(<<1, 15, 24>>), purchase_amount |-> Some(100)],
     [customer_id |-> Some(2), age |-> Some(18), product_name |-> Some(NameSonySpaced),
      category |-> Some("Electronics"), payment_method |-> Some("Cash"),
      purchase_date |-> Some(<<3, 1, 24>>), purchase_amount |-> Some(50)],
     [customer_id |-> NULL, age |-> NULL, product_name |-> Some(NameLamp),
      category |-> NULL, payment_method |-> NULL,
      purchase_date |-> Some(<<13, 1, 24>>), purchase_amount |-> NULL],
     [customer_id |-> Some(1), age |-> Some(61), product_name |-> Some(NameSonyDash),
      category |-> Some("Home"), payment_method |-> Some("Card"),
      purchase_date |-> Some(<<2, 29, 24>>), purchase_amount |-> Some(20)]}

\* rows of cleaned_Temp.csv; sale_date is the <<yyyy, mm, dd>> of its text
StorePool ==
    {[store_id |-> Some(1), sale_date |-> Some(<<2010, 2, 5>>),
      weekly_sales |-> Some(1000), temperature |-> Some(31), fuel_price |-> Some(3)],
     [store_id |-> Some(2), sale_date |-> Some(<<2010, 2, 12>>),
      weekly_sales |-> Some(2000), temperature |-> Some(50), fuel_price |-> Some(3)],
     [store_id |-> NULL, sale_date |-> Some(<<2010, 2, 30>>),
      weekly_sales |-> NULL, temperature |-> NULL, fuel_price |-> NULL],
     [store_id |-> Some(1), sale_date |-> Some(<<2010, 2, 5>>),
      weekly_sales |-> Some(-5), temperature |-> Some(85), fuel_price |-> Some(4)]}

\* rows of cleaned_tmdt_walmart.csv; category is the sequence of the
\* " | "-separated segments of its text
EcomPool ==
    {[product_name |-> Some(NameSonyTV), brand |-> Some(BrandSony),
      category |-> Some(<<"Electronics", "TV">>),
      list_price |-> Some(100), sale_price |-> Some(80)],
     [product_name |-> Some(NameSonyDash), brand |-> Some(BrandSony),
      category |-> Some(<<"Electronics", "TV">>),
      list_price |-> Some(100), sale_price |-> Some(80)],
     [product_name |-> NULL, brand |-> NULL, category |-> NULL,
      list_price |-> NULL, sale_price |-> NULL],
     [product_name |-> Some(NameLamp), brand |-> Some(BrandIkea),
      category |-> Some(<<"Home">>),
      list_price |-> Some(20), sale_price |-> Some(30)]}

FilesOver(cols, pool) ==
    {NoFile} \cup {Frame(cols, rows) : rows \in NonEmptySeqs(pool, MaxRows)}

DefaultPurchases ==
    Frame(PurchaseCols,
          <<CHOOSE r \in PurchasePool : r.customer_id = Some(1) /\ r.age = Some(25),
            CHOOSE r \in PurchasePool : r.customer_id = Some(2)>>)

DefaultStore ==
    Frame(StoreCols,
          <<CHOOSE r \in StorePool : r.temperature = Some(31),
            CHOOSE r \in StorePool : r.store_id = Some(2)>>)

DefaultEcom ==
    Frame(EcomCols,
          <<CHOOSE r \in EcomPool : r.product_name = Some(NameSonyTV),
            CHOOSE r \in EcomPool : r.product_name = Some(NameLamp)>>)

\* the three cleaned inputs of the golden pipeline: one of them varies over
\* its pool while the other two hold their default rows
PipelineInputs ==
    {[purchases |-> f, store |-> DefaultStore, ecom |-> DefaultEcom] :
        f \in FilesOver(PurchaseCols, PurchasePool)}
    \cup {[purchases |-> DefaultPurchases, store |-> f, ecom |-> DefaultEcom] :
        f \in FilesOver(StoreCols, StorePool)}
    \cup {[purchases |-> DefaultPurchases, store |-> DefaultStore, ecom |-> f] :
        f \in FilesOver(EcomCols, EcomPool)}

\* n rows over cols: row i holds i in every column, the first `nulls` rows
\* hold missing values instead
GenRows(cols, n, nulls) ==
    [i \in 1..n |-> [c \in cols |-> IF i <= nulls THEN NULL ELSE Some(i)]]

GenFile(cols, n, nulls) == Frame(cols, GenRows(cols, n, nulls))

RawCols(name) ==
    Range((CHOOSE f \in Range(RawFiles) : f.name = name).critical)

\* data/Raw with every file large enough and complete
RawGood == [n \in RawNames |-> GenFile(RawCols(n), RawMinRows, 0)]

\* data/Raw as the checks can find it: complete, a file absent, a file one
\* row short, a file with 6% or with 5% of a critical column missing
RawDirs ==
    {RawGood,
     [RawGood EXCEPT !["marketing_data"] = NoFile],
     [RawGood EXCEPT !["walmart_products"] =
         GenFile(RawCols("walmart_products"), RawMinRows - 1, 0)],
     [RawGood EXCEPT !["cleaned_products_API"] =
         GenFile(RawCols("cleaned_products_API"), RawMinRows, 6)],
     [RawGood EXCEPT !["cleaned_products_API"] =
         GenFile(RawCols("cleaned_products_API"), RawMinRows, 5)]}

\* the cleaned files only the checks read
SilverAuxGood ==
    [cleaned_cleaned_products_API |-> GenFile({"us_item_id", "product_name"}, 2, 0),
     cleaned_marketing_data       |-> GenFile({"customer_id", "purchase_amount"}, 2, 0),
     cleaned_walmart_products     |-> GenFile({"product_id", "product_name"}, 2, 0)]

SilverAuxDirs ==
    {SilverAuxGood,
     [SilverAuxGood EXCEPT !.cleaned_cleaned_products_API = NoFile],
     [SilverAuxGood EXCEPT !.cleaned_walmart_products =
         Frame(@.cols, @.rows \o <<@.rows[1]>>)],
     [SilverAuxGood EXCEPT !.cleaned_marketing_data =
         GenFile({"customer_id", "purchase_amount"}, 2, 1)]}

\* data/Clean: the three pipeline inputs and the files only the checks read
CleanDir(in, aux) ==
    [n \in CleanNames |->
        IF n = "cleaned_Walmart_customer_purchases" THEN in.purchases
        ELSE IF n = "cleaned_Temp" THEN in.store
        ELSE IF n = "cleaned_tmdt_walmart" THEN in.ecom
        ELSE aux[n]]

StdNames ==
    {"std_customer_purchases", "std_store_performance", "std_ecommerce_sales",
     "product_master", "std_walmart_products"}

EmptyDir(names) == [n \in names |-> NoFile]

\* data/Golden/standardized left by an earlier, interrupted run: the
\* purchases were standardized but no product master was written
StaleStd ==
    [EmptyDir(StdNames) EXCEPT
        !["std_customer_purchases"] = standardize_customer_purchases(DefaultPurchases)]

DefaultInput ==
    [purchases |-> DefaultPurchases, store |-> DefaultStore, ecom |-> DefaultEcom]

\* every subset of the three cleaned inputs absent, the others at their default
MissingInputs ==
    {[purchases |-> IF p THEN DefaultPurchases ELSE NoFile,
      store |-> IF s THEN DefaultStore ELSE NoFile,
      ecom |-> IF e THEN DefaultEcom ELSE NoFile] : p, s, e \in BOOLEAN}

\* the disks a pipeline run can start from
StartDisks ==
    {[raw |-> RawGood, clean |-> CleanDir(in, SilverAuxGood), std |-> EmptyDir(StdNames)] :
        in \in PipelineInputs}
    \cup {[raw |-> r, clean |-> CleanDir(DefaultInput, a), std |-> EmptyDir(StdNames)] :
        r \in RawDirs, a \in SilverAuxDirs}
    \cup {[raw |-> RawGood,
           clean |-> CleanDir([DefaultInput EXCEPT !.purchases = NoFile], SilverAuxGood),
           std |-> StaleStd]}
    \cup {[raw |-> RawGood, clean |-> CleanDir(in, SilverAuxGood),
           std |-> EmptyDir(StdNames)] : in \in MissingInputs}
    \cup {[raw |-> RawGood,
           clean |-> CleanDir([DefaultInput EXCEPT !.purchases = NoFile, !.store = NoFile],
                              SilverAuxGood),
           std |-> StaleStd]}

(***************************************************************************)
(* The golden pipeline (run_pipeline.main) as a state machine over the     *)
(* data directories, the warehouse and the quality report.                 *)
(***************************************************************************)
VARIABLES
    pc,        \* position of run_pipeline.main
    raw,       \* data/Raw
    clean,     \* data/Clean
    std,       \* data/Golden/standardized
    dims,      \* data/Golden/dimensions
    facts,     \* data/Golden/facts
    db,        \* tables of database/walmart_analytics.db
    report,    \* results of the pipeline's DataQualityChecker
    exported,  \* outcome of the web export
    ret,       \* return value of main
    gate,      \* a QualityGate invocation
    input,     \* argument of a function under test
    output     \* its result

vars == <<pc, raw, clean, std, dims, facts, db, report, exported, ret, gate,
          input, output>>

\* to_table_name: the file stem, lower-cased
to_table_name ==
    [n \in DimNames \cup FactNames |->
        CASE n = "DIM_DATE" -> "dim_date"
          [] n = "DIM_DATE_STORE" -> "dim_date_store"
          [] n = "DIM_CUSTOMER" -> "dim_customer"
          [] n = "DIM_PRODUCT" -> "dim_product"
          [] n = "DIM_PAYMENT" -> "dim_payment"
          [] n = "DIM_CATEGORY" -> "dim_category"
          [] n = "DIM_STORE" -> "dim_store"
          [] n = "DIM_TEMPERATURE" -> "dim_temperature"
          [] n = "DIM_ECOMMERCE_PRODUCT" -> "dim_ecommerce_product"
          [] n = "DIM_ECOMMERCE_CATEGORY" -> "dim_ecommerce_category"
          [] n = "DIM_ECOMMERCE_BRAND" -> "dim_ecommerce_brand"
          [] n = "FACT_SALES" -> "fact_sales"
          [] n = "FACT_STORE_PERFORMANCE" -> "fact_store_performance"
          [] n = "FACT_ECOMMERCE_SALES" -> "fact_ecommerce_sales"]

\* a table an earlier version of the pipeline left in the warehouse
StaleTable == "dim_review"

TableNames == {to_table_name[n] : n \in DimNames \cup FactNames} \cup {StaleTable}

GateIdle == [entry |-> "none", mode |-> "none", outcome |-> "idle", results |-> <<>>]

NoCall == [fn |-> "none"]

Init ==
    /\ \E d \in StartDisks : raw = d.raw /\ clean = d.clean /\ std = d.std
    /\ pc = "start"
    /\ dims = EmptyDir(DimNames)
    /\ facts = EmptyDir(FactNames)
    /\ db = [t \in TableNames |-> IF t = StaleTable THEN GenFile({"review_key"}, 1, 0)
                                  ELSE NoFile]
    /\ report = <<>>
    /\ exported = "no"
    /\ ret = "none"
    /\ gate = GateIdle
    /\ input = NoCall
    /\ output = NoCall

\* to_csv over whatever was there; a builder that returns None writes nothing
Written(old, new) == IF new.exists THEN new ELSE old

\* ColumnStandardizer.run: the standardized directory it leaves
RunStandardizer(cleanDir, stdDir) ==
    LET p == standardize_customer_purchases(cleanDir["cleaned_Walmart_customer_purchases"])
        s == standardize_store_performance(cleanDir["cleaned_Temp"])
        e == standardize_ecommerce_sales(cleanDir["cleaned_tmdt_walmart"])
        m == build_product_master(p)
    IN  [stdDir EXCEPT !["std_customer_purchases"] = Written(@, p),
                       !["std_store_performance"]  = Written(@, s),
                       !["std_ecommerce_sales"]    = Written(@, e),
                       !["product_master"]         = Written(@, m)]

Standardize ==
    /\ pc = "start"
    /\ std' = RunStandardizer(clean, std)
    /\ pc' = "standardized"
    /\ UNCHANGED <<raw, clean, dims, facts, db, report, exported, ret, gate,
                   input, output>>

\* DimensionBuilder(std_dir, dim_dir).build_all()
BuiltDims(s) ==
    [n \in DimNames |->
        CASE n = "DIM_PRODUCT" -> build_dim_product(s["product_master"])
          [] n = "DIM_CUSTOMER" -> build_dim_customer(s["std_customer_purchases"])
          [] n = "DIM_DATE" -> build_dim_date(s["std_customer_purchases"])
          [] n = "DIM_PAYMENT" -> build_dim_payment(s["std_customer_purchases"])
          [] n = "DIM_CATEGORY" -> build_dim_category(s["std_walmart_products"],
                                                      s["std_customer_purchases"])
          [] n = "DIM_STORE" -> build_dim_store(s["std_store_performance"])
          [] n = "DIM_DATE_STORE" -> build_dim_date_store(s["std_store_performance"])
          [] n = "DIM_TEMPERATURE" -> build_dim_temperature
          [] n = "DIM_ECOMMERCE_PRODUCT" -> build_dim_ecommerce_product(s["std_ecommerce_sales"])
          [] n = "DIM_ECOMMERCE_CATEGORY" ->
                 build_dim_ecommerce_category(s["std_ecommerce_sales"])
          [] n = "DIM_ECOMMERCE_BRAND" -> build_dim_ecommerce_brand(s["std_ecommerce_sales"])]

\* the dimension directory after build_all
RunDimensions(stdDir, dimDir) ==
    [n \in DimNames |-> Written(dimDir[n], BuiltDims(stdDir)[n])]

BuildDimensions ==
    /\ pc = "standardized"
    /\ dims' = RunDimensions(std, dims)
    /\ pc' = "dims_built"
    /\ UNCHANGED <<raw, clean, std, facts, db, report, exported, ret, gate,
                   input, output>>

\* FactBuilder(std_dir, dim_dir, fact_dir).build_all(): the three builders in
\* order; a KeyError in one leaves the facts written before it and ends main
RunFacts(stdDir, dimDir, factDir) ==
    LET f1 == build_fact_sales(stdDir["std_customer_purchases"], dimDir["DIM_PRODUCT"],
                               dimDir["DIM_CUSTOMER"], dimDir["DIM_PAYMENT"],
                               dimDir["DIM_CATEGORY"])
        f2 == build_fact_store_performance(stdDir["std_store_performance"],
                                           dimDir["DIM_STORE"])
        f3 == build_fact_ecommerce_sales(stdDir["std_ecommerce_sales"],
                                         dimDir["DIM_ECOMMERCE_PRODUCT"],
                                         dimDir["DIM_ECOMMERCE_CATEGORY"],
                                         dimDir["DIM_ECOMMERCE_BRAND"])
        ok1 == f1.st # "raise"
        ok2 == ok1 /\ f2.st # "raise"
        ok3 == ok2 /\ f3.st # "raise"
    IN  [ok    |-> ok3,
         files |-> [factDir EXCEPT
                     !["FACT_SALES"] = IF ok1 THEN Written(@, f1.file) ELSE @,
                     !["FACT_STORE_PERFORMANCE"] = IF ok2 THEN Written(@, f2.file) ELSE @,
                     !["FACT_ECOMMERCE_SALES"] = IF ok3 THEN Written(@, f3.file) ELSE @]]

BuildFacts ==
    /\ pc = "dims_built"
    /\ LET built == RunFacts(std, dims, facts)
       IN  /\ facts' = built.files
           /\ pc' = IF built.ok THEN "facts_built" ELSE "crashed"
    /\ UNCHANGED <<raw, clean, std, dims, db, report, exported, ret, gate,
                   input, output>>

\* drop every existing table, then CREATE OR REPLACE one table per golden CSV
LoadWarehouse ==
    /\ pc = "facts_built"
    /\ db' = [t \in TableNames |->
                IF \E n \in DimNames : to_table_name[n] = t /\ dims[n].exists
                THEN dims[CHOOSE n \in DimNames : to_table_name[n] = t]
                ELSE IF \E n \in FactNames : to_table_name[n] = t /\ facts[n].exists
                THEN facts[CHOOSE n \in FactNames : to_table_name[n] = t]
                ELSE NoFile]
    /\ pc' = "loaded"
    /\ UNCHANGED <<raw, clean, std, dims, facts, report, exported, ret, gate,
                   input, output>>

\* DataQualityChecker(base_dir).run_all_checks()
QualityChecks ==
    /\ pc = "loaded"
    /\ report' = run_all_checks(raw, clean, dims, facts)
    /\ pc' = "checked"
    /\ UNCHANGED <<raw, clean, std, dims, facts, db, exported, ret, gate,
                   input, output>>

\* main failing when the export failed
MainResultFailsWithExport(passed, export_ok) == passed /\ export_ok

\* what main returns: report.passed, whether or not export_main raised
MainResult(passed, export_ok) == passed

\* sys.exit(0 if success else 1)
ExitCode(success) == IF success THEN 0 ELSE 1

\* the web export inside try/except, then return report.passed
Export ==
    /\ pc = "checked"
    /\ \E ok \in BOOLEAN :
          /\ exported' = IF ok THEN "ok" ELSE "failed"
          /\ ret' = MainResult(ReportPassed(report), ok)
    /\ pc' = "done"
    /\ UNCHANGED <<raw, clean, std, dims, facts, db, report, gate, input, output>>

Next ==
    \/ Standardize
    \/ BuildDimensions
    \/ BuildFacts
    \/ LoadWarehouse
    \/ QualityChecks
    \/ Export

Spec == Init /\ [][Next]_vars

(***************************************************************************)
(* Properties of the golden pipeline                                       *)
(***************************************************************************)
FactsBuilt == pc \in {"facts_built", "loaded", "checked", "done"}

\* the surrogate keys a dimension file holds
KeySet(dim, pk) == {dim.rows[i][pk] : i \in 1..Len(dim.rows)}

FkColumnSound(fact, dim, fk, pk) ==
    \A i \in 1..Len(fact.rows) :
        /\ ~IsNull(fact.rows[i][fk])
        /\ fact.rows[i][fk] = Some(-1) \/ fact.rows[i][fk] \in KeySet(dim, pk)

\* C1: in every fact table built by the run, every foreign-key value of every
\* row is non-null and is either the sentinel -1 or a surrogate key of the
\* referenced dimension built in the same run
C1_FkSoundness ==
    FactsBuilt =>
        \A i \in 1..Len(FactSpecs) :
            \A k \in 1..Len(FactSpecs[i].fks) :
                FkColumnSound(facts[FactSpecs[i].name], dims[FactSpecs[i].fks[k][2]],
                              FactSpecs[i].fks[k][1], FactSpecs[i].fks[k][3])

\* a built FACT_SALES holding both a sentinel and a matched payment key
C1_Witness ==
    /\ FactsBuilt
    /\ \E i, j \in 1..Len(facts["FACT_SALES"].rows) :
          /\ facts["FACT_SALES"].rows[i].payment_key = Some(-1)
          /\ facts["FACT_SALES"].rows[j].payment_key \in
                 KeySet(dims["DIM_PAYMENT"], "payment_key")

\* C2: each built fact table has exactly as many rows as its standardized
\* source table
C2_RowCountParity ==
    FactsBuilt =>
        /\ facts["FACT_SALES"].exists =>
              Len(facts["FACT_SALES"].rows) = Len(std["std_customer_purchases"].rows)
        /\ facts["FACT_STORE_PERFORMANCE"].exists =>
              Len(facts["FACT_STORE_PERFORMANCE"].rows)
                  = Len(std["std_store_performance"].rows)
        /\ facts["FACT_ECOMMERCE_SALES"].exists =>
              Len(facts["FACT_ECOMMERCE_SALES"].rows) = Len(std["std_ecommerce_sales"].rows)

DimsBuilt == pc \in {"dims_built", "facts_built", "loaded", "checked", "done", "crashed"}

\* no two rows of the file agree on Key
KeyUnique(file, Key(_)) ==
    Cardinality({Key(file.rows[i]) : i \in 1..Len(file.rows)}) = Len(file.rows)

\* C3: in every dimension the run built, no two rows share the business key
C3_BusinessKeyUnique ==
    DimsBuilt =>
        /\ KeyUnique(dims["DIM_CUSTOMER"], LAMBDA r : r.customer_id)
        /\ KeyUnique(dims["DIM_PRODUCT"], LAMBDA r : r.product_id)
        /\ KeyUnique(dims["DIM_ECOMMERCE_PRODUCT"], LAMBDA r : r.product_id)
        /\ KeyUnique(dims["DIM_PAYMENT"], LAMBDA r : r.payment_method)
        /\ KeyUnique(dims["DIM_CATEGORY"], LAMBDA r : r.category_name)
        /\ KeyUnique(dims["DIM_STORE"], LAMBDA r : r.store_id)
        /\ KeyUnique(dims["DIM_ECOMMERCE_CATEGORY"],
                     LAMBDA r : <<r.root_category, r.sub_category>>)
        /\ KeyUnique(dims["DIM_ECOMMERCE_BRAND"], LAMBDA r : r.brand)

\* a purchases file of three rows, exactly one without customer_id, the
\* other two with distinct ids
NullCustomerScenario(file) ==
    /\ file.exists
    /\ Len(file.rows) = 3
    /\ \E i \in 1..3 :
          /\ IsNull(file.rows[i].customer_id)
          /\ \A j, k \in (1..3) \ {i} :
                /\ ~IsNull(file.rows[j].customer_id)
                /\ j # k => file.rows[j].customer_id # file.rows[k].customer_id

\* C4: on such a file DIM_CUSTOMER has 2 rows, FACT_SALES has 3 rows with
\* customer_key = -1 on the row without customer_id, and the report's
\* fk_integrity:customer_key result has sentinel_count = 1, orphan_count = 0
C4_NullCustomerEndToEnd ==
    (pc \in {"checked", "done"}
        /\ NullCustomerScenario(clean["cleaned_Walmart_customer_purchases"])) =>
        /\ Len(dims["DIM_CUSTOMER"].rows) = 2
        /\ Len(facts["FACT_SALES"].rows) = 3
        /\ \A i \in 1..3 :
              IsNull(clean["cleaned_Walmart_customer_purchases"].rows[i].customer_id)
                  => facts["FACT_SALES"].rows[i].customer_key = Some(-1)
        /\ \E n \in 1..Len(report) :
              /\ report[n].check_name = "fk_integrity"
              /\ report[n].column = "customer_key"
              /\ report[n].table_name = "FACT_SALES"
              /\ report[n].details.sentinel_count = 1
              /\ report[n].details.orphan_count = 0

\* the key column holds 1..N, one per row in row order
KeyIsPosition(file, key) == \A i \in 1..Len(file.rows) : file.rows[i][key] = Some(i)

\* the key column holds no missing value and no value twice
KeyColumnSound(file, key) ==
    /\ \A i \in 1..Len(file.rows) : ~IsNull(file.rows[i][key])
    /\ KeyUnique(file, LAMBDA r : r[key])

CalendarNames == {"DIM_DATE", "DIM_DATE_STORE"}

\* C6: in every dimension the run built the surrogate key has no nulls and
\* no duplicates, and in the non-calendar dimensions it is 1..N by row position
C6_DimensionKeyIntegrity ==
    DimsBuilt =>
        \A i \in 1..Len(DimSpecs) :
            /\ KeyColumnSound(dims[DimSpecs[i].name], DimSpecs[i].pk)
            /\ DimSpecs[i].name \notin CalendarNames =>
                  KeyIsPosition(dims[DimSpecs[i].name], DimSpecs[i].pk)

\* de-duplication removed a purchase row's customer and left two customers
C6_Witness ==
    /\ DimsBuilt
    /\ Len(dims["DIM_CUSTOMER"].rows) = 2
    /\ Len(std["std_customer_purchases"].rows) = 3
    /\ Len(dims["DIM_ECOMMERCE_BRAND"].rows) = 2

\* C7: in every fact table with N rows the primary key is 1..N, one per row
\* in row order, whatever the joins matched or fanned out
C7_FactKeySequential ==
    FactsBuilt =>
        \A i \in 1..Len(FactSpecs) :
            /\ KeyIsPosition(facts[FactSpecs[i].name], FactSpecs[i].pk)
            /\ KeyColumnSound(facts[FactSpecs[i].name], FactSpecs[i].pk)

\* a join fanned out: the e-commerce fact has more rows than its source
C7_Witness ==
    /\ FactsBuilt
    /\ Len(facts["FACT_ECOMMERCE_SALES"].rows) > Len(std["std_ecommerce_sales"].rows)
    /\ Len(facts["FACT_SALES"].rows) = 2

\* the day after a civil date
NextDay(t) ==
    IF t[3] < DaysInMonth(t[1], t[2]) THEN <<t[1], t[2], t[3] + 1>>
    ELSE IF t[2] < 12 THEN <<t[1], t[2] + 1, 1>>
    ELSE <<t[1] + 1, 1, 1>>

\* one row per consecutive day from the first row's date to the last row's,
\* each date_key the YYYYMMDD of its date and none twice
CalendarComplete(file) ==
    LET n == Len(file.rows)
        date(i) == Val(file.rows[i].full_date)
    IN  /\ n > 0
        /\ n = Ymd2Ord(date(n)) - Ymd2Ord(date(1)) + 1
        /\ \A i \in 1..(n - 1) : date(i + 1) = NextDay(date(i))
        /\ \A i \in 1..n :
              file.rows[i].date_key
                  = Some(date(i)[1] * 10000 + date(i)[2] * 100 + date(i)[3])
        /\ KeyUnique(file, LAMBDA r : r.date_key)

\* the calendar starts `before` days ahead of a date of the data and ends
\* `after` days past one, and covers every date of the data
CalendarSpans(file, days, before, after) ==
    LET first == Ymd2Ord(Val(file.rows[1].full_date))
        last  == Ymd2Ord(Val(file.rows[Len(file.rows)].full_date))
    IN  /\ first + before \in days
        /\ last - after \in days
        /\ \A d \in days : first + before <= d /\ d <= last - after

\* the valid dates of a standardized date column
ValidDays(file, col) ==
    {Ymd2Ord(Val(file.rows[i][col])) :
        i \in {j \in 1..Len(file.rows) :
                  ~IsNull(file.rows[j][col]) /\ ValidYmd(Val(file.rows[j][col]))}}

\* C8: each calendar dimension built over [start_date, end_date] holds
\* exactly (end_date - start_date).days + 1 rows, one per consecutive day,
\* with no duplicate date_key and date_key the YYYYMMDD of the row's date
C8_CalendarCompleteness ==
    DimsBuilt =>
        /\ dims["DIM_DATE"].exists
        /\ CalendarComplete(dims["DIM_DATE"])
        /\ LET days == ValidDays(std["std_customer_purchases"], "purchase_date")
           IN  IF days # {} THEN CalendarSpans(dims["DIM_DATE"], days, 30, 90)
               ELSE /\ dims["DIM_DATE"].rows[1].full_date = Some(<<2020, 1, 1>>)
                    /\ dims["DIM_DATE"].rows[Len(dims["DIM_DATE"].rows)].full_date
                           = Some(<<2030, 12, 31>>)
        /\ dims["DIM_DATE_STORE"].exists =>
              /\ CalendarComplete(dims["DIM_DATE_STORE"])
              /\ CalendarSpans(dims["DIM_DATE_STORE"],
                               ValidDays(std["std_store_performance"], "sale_date"), 0, 0)

\* a store calendar of the eight days 2010-02-05..2010-02-12 next to a
\* purchase calendar that crosses 29 February 2024
C8_Witness ==
    /\ DimsBuilt
    /\ Len(dims["DIM_DATE_STORE"].rows) = 8
    /\ \E i \in 1..Len(dims["DIM_DATE"].rows) :
          dims["DIM_DATE"].rows[i].full_date = Some(<<2024, 2, 29>>)

(***************************************************************************)
(* build_product_ids under rewritings of a product name that change only   *)
(* letter case, the amount of whitespace, or the separators between words. *)
(***************************************************************************)
MaxEdits == 2

\* space and hyphen
Separators == {32, 45}

IsLetter(ch) == (65 <= ch /\ ch <= 90) \/ (97 <= ch /\ ch <= 122)

ToggleCase(s, i) == [s EXCEPT ![i] = IF IsUpper(@) THEN @ + 32 ELSE @ - 32]

InsertAt(s, i, ch) == SubSeq(s, 1, i - 1) \o <<ch>> \o SubSeq(s, i, Len(s))

\* position i of s touches a separator or an end of s
AtSeparator(s, i) ==
    \/ i = 1
    \/ i = Len(s) + 1
    \/ ~IsAlnum(s[i - 1])
    \/ ~IsAlnum(s[i])

\* the rewritings of s by one change of case, of whitespace or of separator
Rewritings(s) ==
    {ToggleCase(s, i) : i \in {j \in 1..Len(s) : IsLetter(s[j])}}
    \cup {InsertAt(s, i, ch) :
            i \in {j \in 1..(Len(s) + 1) : AtSeparator(s, j)}, ch \in Separators}
    \cup {[s EXCEPT ![i] = ch] :
            i \in {j \in 1..Len(s) : ~IsAlnum(s[j])},
            ch \in Separators}

UnitDisk ==
    /\ pc = "none"
    /\ raw = EmptyDir(RawNames)
    /\ clean = EmptyDir(CleanNames)
    /\ std = EmptyDir(StdNames)
    /\ dims = EmptyDir(DimNames)
    /\ facts = EmptyDir(FactNames)
    /\ db = EmptyDir(TableNames)
    /\ report = <<>>
    /\ exported = "no"
    /\ ret = "none"

ProductIdInit ==
    /\ UnitDisk
    /\ gate = GateIdle
    /\ \E n \in {NameSonyTV, NameSonySpaced, NameSonyDash} :
          input = [fn |-> "build_product_ids", base |-> NameSonyTV, name |-> n,
                   edits |-> 0]
    /\ output = NoCall

\* one more rewriting of the name, before the ids are built
EditName ==
    /\ input.fn = "build_product_ids"
    /\ output = NoCall
    /\ input.edits < MaxEdits
    /\ \E n \in Rewritings(input.name) :
          input' = [input EXCEPT !.name = n, !.edits = @ + 1]
    /\ UNCHANGED <<pc, raw, clean, std, dims, facts, db, report, exported, ret,
                   gate, output>>

\* build_product_ids over the column <<base, name>>
BuildProductIds ==
    /\ input.fn = "build_product_ids"
    /\ output = NoCall
    /\ output' = [fn |-> "build_product_ids",
                  ids |-> build_product_ids(<<Some(input.base), Some(input.name)>>,
                                            DefaultPrefix)]
    /\ UNCHANGED <<pc, raw, clean, std, dims, facts, db, report, exported, ret,
                   gate, input>>

ProductIdNext == EditName \/ BuildProductIds

ProductIdSpec == ProductIdInit /\ [][ProductIdNext]_vars

\* C5: names that differ only in letter case, amount of whitespace or
\* separators get the same product_id, which is the prefix, "_" and ten
\* hex digits
C5_ProductIdDeterminism ==
    output.fn = "build_product_ids" =>
        /\ output.ids[1] = output.ids[2]
        /\ ~IsNull(output.ids[1])
        /\ Len(Val(output.ids[2])) = Len(DefaultPrefix) + 11
        /\ SubSeq(Val(output.ids[2]), 1, Len(DefaultPrefix) + 1)
               = DefaultPrefix \o <<95>>

\* the ids were built for "Sony TV" and a rewriting of "SONY-TV"
C5_Witness ==
    /\ output.fn = "build_product_ids"
    /\ input.name # input.base
    /\ input.edits = MaxEdits
    /\ \E i \in 1..Len(input.name) : input.name[i] = 45

(***************************************************************************)
(* QualityGate invocations over the data directories as they stand: before *)
(* the golden pipeline has run, or after it ran on some cleaned inputs.    *)
(***************************************************************************)
\* the golden directories after a pipeline run on the inputs
GoldenAfter(in) ==
    LET s == RunStandardizer(CleanDir(in, SilverAuxGood), EmptyDir(StdNames))
        d == RunDimensions(s, EmptyDir(DimNames))
    IN  [dims |-> d, facts |-> RunFacts(s, d, EmptyDir(FactNames)).files]

\* inputs whose golden layer passes its checks, and inputs whose does not:
\* a purchase without payment method, two spellings of one product
GateInputs ==
    {DefaultInput,
     [DefaultInput EXCEPT !.purchases =
         Frame(PurchaseCols,
               <<CHOOSE r \in PurchasePool : r.customer_id = Some(2),
                 CHOOSE r \in PurchasePool : IsNull(r.customer_id)>>)],
     [DefaultInput EXCEPT !.ecom =
         Frame(EcomCols,
               <<CHOOSE r \in EcomPool : r.product_name = Some(NameSonyTV),
                 CHOOSE r \in EcomPool : r.product_name = Some(NameSonyDash)>>)]}

GoldenDirs ==
    {[dims |-> EmptyDir(DimNames), facts |-> EmptyDir(FactNames)]}
        \cup {GoldenAfter(in) : in \in GateInputs}

GateInit ==
    /\ \E g \in GoldenDirs : dims = g.dims /\ facts = g.facts
    /\ pc = "none"
    /\ raw \in RawDirs
    /\ \E a \in SilverAuxDirs : clean = CleanDir(DefaultInput, a)
    /\ std = EmptyDir(StdNames)
    /\ db = EmptyDir(TableNames)
    /\ report = <<>>
    /\ exported = "no"
    /\ ret = "none"
    /\ gate = GateIdle
    /\ input = NoCall
    /\ output = NoCall

\* QualityGate(base_dir, mode).<entry>(): the outcome and the report of the
\* gate's own checker
Invoked(entry, mode, call) ==
    [entry |-> entry, mode |-> mode, outcome |-> call.outcome, results |-> call.results]

PreSilverCheck ==
    /\ gate = GateIdle
    /\ \E mode \in GateModes :
          gate' = Invoked("pre_silver_check", mode, pre_silver_check(mode, raw))
    /\ UNCHANGED <<pc, raw, clean, std, dims, facts, db, report, exported, ret,
                   input, output>>

PostSilverCheck ==
    /\ gate = GateIdle
    /\ \E mode \in GateModes :
          gate' = Invoked("post_silver_check", mode, post_silver_check(mode, raw, clean))
    /\ UNCHANGED <<pc, raw, clean, std, dims, facts, db, report, exported, ret,
                   input, output>>

PostGoldenCheck ==
    /\ gate = GateIdle
    /\ \E mode \in GateModes :
          gate' = Invoked("post_golden_check", mode, post_golden_check(mode, dims, facts))
    /\ UNCHANGED <<pc, raw, clean, std, dims, facts, db, report, exported, ret,
                   input, output>>

FullPipelineCheck ==
    /\ gate = GateIdle
    /\ \E mode \in GateModes :
          gate' = Invoked("full_pipeline_check", mode,
                          full_pipeline_check(mode, raw, clean, dims, facts))
    /\ UNCHANGED <<pc, raw, clean, std, dims, facts, db, report, exported, ret,
                   input, output>>

GateNext == PreSilverCheck \/ PostSilverCheck \/ PostGoldenCheck \/ FullPipelineCheck

GateSpec == GateInit /\ [][GateNext]_vars

SomeFailed(results) == \E i \in 1..Len(results) : ~results[i].passed

\* C9: whichever entry point is called, a gate in "fail" mode raises
\* QualityGateError whenever a stage validated by the call recorded a failed
\* check, and a gate in "warn" mode returns normally whatever failed
C9_GateModes ==
    gate.outcome # "idle" =>
        /\ (gate.mode = "fail" /\ SomeFailed(gate.results)) => gate.outcome = "raised"
        /\ gate.mode = "warn" => gate.outcome = "returned"

(***************************************************************************)
(* Single checks of a DataQualityChecker on a data frame                   *)
(***************************************************************************)
MaxKeyRows == 3

KeyCells == {NULL, Some(1), Some(2), Some(3)}

\* frames with a key column "id", and frames without one
CheckFrames ==
    {Frame({"id", "v"}, [i \in 1..Len(ks) |-> [id |-> ks[i], v |-> Some(i)]]) :
        ks \in SeqsUpTo(KeyCells, MaxKeyRows)}
    \cup {GenFile({"v"}, n, 0) : n \in 0..MaxKeyRows}

CheckInit ==
    /\ UnitDisk
    /\ gate = GateIdle
    /\ \E df \in CheckFrames :
          input = [fn |-> "check_unique_key", df |-> df, key_column |-> "id"]
    /\ output = NoCall

\* checker.check_unique_key(df, "golden_dim", "T", key_column)
CheckUniqueKey ==
    /\ input.fn = "check_unique_key"
    /\ output = NoCall
    /\ LET c == check_unique_key(input.df, "golden_dim", "T", input.key_column)
       IN  /\ output' = [fn |-> "check_unique_key", ret |-> c.ret]
           /\ report' = report \o c.results
    /\ UNCHANGED <<pc, raw, clean, std, dims, facts, db, exported, ret, gate, input>>

CheckNext == CheckUniqueKey

CheckSpec == CheckInit /\ [][CheckNext]_vars

\* C10: check_unique_key records passed=True and returns True exactly when
\* the key column exists and holds no duplicate and no null
C10_UniqueKeyIff ==
    output.fn = "check_unique_key" =>
        /\ Len(report) = 1
        /\ report[1].passed = output.ret
        /\ output.ret <=>
              /\ input.key_column \in input.df.cols
              /\ \A i, j \in 1..Len(input.df.rows) :
                    input.df.rows[i][input.key_column] = input.df.rows[j][input.key_column]
                        => i = j
              /\ \A i \in 1..Len(input.df.rows) :
                    ~IsNull(input.df.rows[i][input.key_column])

(***************************************************************************)
(* check_foreign_key on a fact key column and a dimension key column       *)
(***************************************************************************)
MaxFkRows == 3

MaxPkRows == 2

FkCells == {NULL, Some(-1), Some(1), Some(2)}

PkCells == {NULL, Some(-1), Some(1)}

\* fact frames with a column "customer_key", and one without it
FkFactFrames ==
    {Frame({"sale_id", "customer_key"},
           [i \in 1..Len(ks) |-> [sale_id |-> Some(i), customer_key |-> ks[i]]]) :
        ks \in SeqsUpTo(FkCells, MaxFkRows)}
    \cup {GenFile({"sale_id"}, 1, 0)}

FkDimFrames ==
    {Frame({"customer_key"}, [i \in 1..Len(ks) |-> [customer_key |-> ks[i]]]) :
        ks \in SeqsUpTo(PkCells, MaxPkRows)}

FkCheckInit ==
    /\ UnitDisk
    /\ gate = GateIdle
    /\ \E f \in FkFactFrames, d \in FkDimFrames :
          input = [fn |-> "check_foreign_key", fact_df |-> f, dim_df |-> d,
                   fk_column |-> "customer_key", pk_column |-> "customer_key"]
    /\ output = NoCall

\* checker.check_foreign_key(fact_df, dim_df, fk, pk, "golden_fact", "FACT_SALES", ...)
CheckForeignKey ==
    /\ input.fn = "check_foreign_key"
    /\ output = NoCall
    /\ LET c == check_foreign_key(input.fact_df, input.dim_df, input.fk_column,
                                  input.pk_column, "golden_fact", "FACT_SALES")
       IN  /\ output' = [fn |-> "check_foreign_key", ret |-> c.ret]
           /\ report' = report \o c.results
    /\ UNCHANGED <<pc, raw, clean, std, dims, facts, db, exported, ret, gate, input>>

FkCheckNext == CheckForeignKey

FkCheckSpec == FkCheckInit /\ [][FkCheckNext]_vars

\* the fact rows whose key satisfies Test
FkRowsWhere(Test(_)) ==
    {i \in 1..Len(input.fact_df.rows) : Test(input.fact_df.rows[i][input.fk_column])}

FkIsOrphan(c) ==
    /\ ~IsNull(c)
    /\ c # Some(-1)
    /\ \A j \in 1..Len(input.dim_df.rows) : input.dim_df.rows[j][input.pk_column] # c

FkIsSentinel(c) == c = Some(-1)

\* C11: when the key column exists, check_foreign_key reports orphan_count =
\* the number of fact rows whose key is non-null, not -1 and absent from the
\* dimension's keys, and sentinel_count = the number of fact rows whose key
\* is -1; no row is counted in both; the check passes iff both are zero
C11_FkCounts ==
    (output.fn = "check_foreign_key" /\ input.fk_column \in input.fact_df.cols) =>
        /\ Len(report) = 1
        /\ report[1].details.orphan_count = Cardinality(FkRowsWhere(FkIsOrphan))
        /\ report[1].details.sentinel_count = Cardinality(FkRowsWhere(FkIsSentinel))
        /\ FkRowsWhere(FkIsOrphan) \cap FkRowsWhere(FkIsSentinel) = {}
        /\ report[1].details.orphan_count + report[1].details.sentinel_count
              <= Len(input.fact_df.rows)
        /\ report[1].passed = output.ret
        /\ output.ret <=> (report[1].details.orphan_count = 0
                             /\ report[1].details.sentinel_count = 0)

\* a checked fact column holding a sentinel, an orphan and a matched key,
\* against a dimension that itself holds -1
C11_Witness ==
    /\ output.fn = "check_foreign_key"
    /\ input.fk_column \in input.fact_df.cols
    /\ Some(-1) \in Range(Column(input.dim_df.rows, "customer_key"))
    /\ Some(1) \in Range(Column(input.dim_df.rows, "customer_key"))
    /\ Range(Column(input.fact_df.rows, "customer_key")) = {Some(-1), Some(1), Some(2)}
    /\ report[1].details.orphan_count = 1
    /\ report[1].details.sentinel_count = 1

(***************************************************************************)
(* QualityReport: results recorded by a sequence of checks, and its        *)
(* summary and passed properties                                           *)
(***************************************************************************)
MaxChecks == 3

\* by_stage: a counter pair for every stage that recorded a result
ByStage(results) ==
    [s \in {results[i].stage : i \in 1..Len(results)} |->
        [passed |-> Len(SelectSeq(results, LAMBDA r : r.stage = s /\ r.passed)),
         failed |-> Len(SelectSeq(results, LAMBDA r : r.stage = s /\ ~r.passed))]]

FailedEntry(r) ==
    [stage |-> r.stage, table |-> r.table_name, check |-> <<r.check_name, r.column>>]

\* failed_checks listing every result
FailedChecksAll(results) == [i \in 1..Len(results) |-> FailedEntry(results[i])]

FailedChecks(results) ==
    LET failures == SelectSeq(results, LAMBDA r : ~r.passed)
    IN  [i \in 1..Len(failures) |-> FailedEntry(failures[i])]

\* QualityReport.summary, without the formatted pass_rate and messages
summary(results) ==
    LET total  == Len(results)
        passed == Len(SelectSeq(results, LAMBDA r : r.passed))
    IN  [total_checks |-> total,
         passed |-> passed,
         failed |-> total - passed,
         by_stage |-> ByStage(results),
         failed_checks |-> FailedChecks(results)]

ReportStages == {"raw", "silver", "golden_dim"}

\* key columns for check_unique_key: unique, duplicated, absent
ReportKeyFrames ==
    {Frame({"id"}, <<[id |-> Some(1)], [id |-> Some(2)]>>),
     Frame({"id"}, <<[id |-> Some(1)], [id |-> Some(1)]>>),
     GenFile({"v"}, 1, 0)}

ReportInit ==
    /\ UnitDisk
    /\ gate = GateIdle
    /\ input = NoCall
    /\ output = NoCall

\* a check adds its results to the checker's report
Recorded(c) ==
    /\ Len(report) < MaxChecks
    /\ report' = report \o c.results
    /\ output' = NoCall
    /\ UNCHANGED <<pc, raw, clean, std, dims, facts, db, exported, ret, gate, input>>

RecordFileExists ==
    \E stage \in ReportStages, exists \in BOOLEAN :
        Recorded(check_file_exists(IF exists THEN GenFile({"v"}, 1, 0) ELSE NoFile,
                                   stage, "T"))

RecordRowCount ==
    \E stage \in {"silver", "golden_fact"}, n \in 0..1 :
        Recorded(check_row_count(GenFile({"v"}, n, 0), stage, "T", 1))

RecordUniqueKey ==
    \E df \in ReportKeyFrames : Recorded(check_unique_key(df, "golden_dim", "T", "id"))

\* report.summary and report.passed are read
ReadReport ==
    /\ output = NoCall
    /\ output' = [fn |-> "summary", summary |-> summary(report),
                  passed |-> ReportPassed(report)]
    /\ UNCHANGED <<pc, raw, clean, std, dims, facts, db, report, exported, ret, gate,
                   input>>

ReportNext == RecordFileExists \/ RecordRowCount \/ RecordUniqueKey \/ ReadReport

ReportSpec == ReportInit /\ [][ReportNext]_vars

FailedIdx == {i \in 1..Len(report) : ~report[i].passed}

PassedIdx == {i \in 1..Len(report) : report[i].passed}

\* the position in the report of the k-th failed result
KthFailed(k) ==
    CHOOSE i \in FailedIdx : Cardinality({j \in FailedIdx : j <= i}) = k

RECURSIVE SumOver(_, _)
SumOver(S, f) ==
    IF S = {} THEN 0
    ELSE LET x == CHOOSE y \in S : TRUE IN f[x] + SumOver(S \ {x}, f)

\* C12: in the summary of the recorded results, passed + failed =
\* total_checks = the number of results, the per-stage passed and failed
\* counts sum to the global counts, and failed_checks lists, in recording
\* order, one entry per failed result and none for a passed result
C12_SummaryConsistent ==
    output.fn = "summary" =>
        LET s == output.summary
        IN  /\ s.passed + s.failed = s.total_checks
            /\ s.total_checks = Len(report)
            /\ s.passed = Cardinality(PassedIdx)
            /\ s.failed = Cardinality(FailedIdx)
            /\ DOMAIN s.by_stage = {report[i].stage : i \in 1..Len(report)}
            /\ SumOver(DOMAIN s.by_stage, [st \in DOMAIN s.by_stage |-> s.by_stage[st].passed])
                  = s.passed
            /\ SumOver(DOMAIN s.by_stage, [st \in DOMAIN s.by_stage |-> s.by_stage[st].failed])
                  = s.failed
            /\ \A st \in DOMAIN s.by_stage :
                  /\ s.by_stage[st].passed
                        = Cardinality({i \in PassedIdx : report[i].stage = st})
                  /\ s.by_stage[st].failed
                        = Cardinality({i \in FailedIdx : report[i].stage = st})
            /\ Len(s.failed_checks) = Cardinality(FailedIdx)
            /\ \A k \in 1..Len(s.failed_checks) :
                  /\ s.failed_checks[k].stage = report[KthFailed(k)].stage
                  /\ s.failed_checks[k].table = report[KthFailed(k)].table_name
                  /\ s.failed_checks[k].check[1] = report[KthFailed(k)].check_name

\* a summary read over a failed, a passed and another failed result, the
\* failures in different stages
C12_Witness ==
    /\ output.fn = "summary"
    /\ Len(report) = 3
    /\ ~report[1].passed /\ report[2].passed /\ ~report[3].passed
    /\ report[1].stage # report[3].stage
    /\ Len(output.summary.failed_checks) = 2

\* C13: QualityReport.passed is true iff every recorded result passed,
\* equivalently iff summary.failed = 0
C13_PassedIffAllPassed ==
    output.fn = "summary" =>
        /\ output.passed <=> (\A i \in 1..Len(report) : report[i].passed)
        /\ output.passed <=> (output.summary.failed = 0)

\* passed read as false over a report whose only failure is the last of
\* three results from three stages
C13_Witness ==
    /\ output.fn = "summary"
    /\ ~output.passed
    /\ Len(report) = 3
    /\ report[1].passed /\ report[2].passed /\ ~report[3].passed
    /\ Cardinality({report[i].stage : i \in 1..3}) = 3

(***************************************************************************)
(* Successive runs of the golden pipeline over the same data directories   *)
(* and warehouse; the cleaned layer may change between two runs.           *)
(***************************************************************************)
MaxRuns == 2

\* the first run starts from empty golden directories
RerunInit ==
    /\ raw = RawGood
    /\ clean = CleanDir(DefaultInput, SilverAuxGood)
    /\ std = EmptyDir(StdNames)
    /\ pc = "start"
    /\ dims = EmptyDir(DimNames)
    /\ facts = EmptyDir(FactNames)
    /\ db = EmptyDir(TableNames)
    /\ report = <<>>
    /\ exported = "no"
    /\ ret = "none"
    /\ gate = GateIdle
    /\ input = [fn |-> "main", run |-> 1]
    /\ output = NoCall

\* main is started again after the cleaned layer was replaced; the golden
\* directories and the warehouse are as the previous run left them
StartNextRun ==
    /\ pc \in {"done", "crashed"}
    /\ input.run < MaxRuns
    /\ \E in \in PipelineInputs : clean' = CleanDir(in, SilverAuxGood)
    /\ pc' = "start"
    /\ report' = <<>>
    /\ exported' = "no"
    /\ ret' = "none"
    /\ input' = [input EXCEPT !.run = @ + 1]
    /\ UNCHANGED <<raw, std, dims, facts, db, gate, output>>

RerunNext == Next \/ StartNextRun

RerunSpec == RerunInit /\ [][RerunNext]_vars

\* what the fact builders of the current run return
BuiltFacts(stdDir, dimDir) ==
    [n \in FactNames |->
        CASE n = "FACT_SALES" ->
                 build_fact_sales(stdDir["std_customer_purchases"], dimDir["DIM_PRODUCT"],
                                  dimDir["DIM_CUSTOMER"], dimDir["DIM_PAYMENT"],
                                  dimDir["DIM_CATEGORY"]).file
          [] n = "FACT_STORE_PERFORMANCE" ->
                 build_fact_store_performance(stdDir["std_store_performance"],
                                              dimDir["DIM_STORE"]).file
          [] n = "FACT_ECOMMERCE_SALES" ->
                 build_fact_ecommerce_sales(stdDir["std_ecommerce_sales"],
                                            dimDir["DIM_ECOMMERCE_PRODUCT"],
                                            dimDir["DIM_ECOMMERCE_CATEGORY"],
                                            dimDir["DIM_ECOMMERCE_BRAND"]).file]

Loaded == pc \in {"loaded", "checked", "done"}

\* table t holds what a builder of the current run returned
FromCurrentRun(t) ==
    \/ \E n \in DimNames :
          /\ to_table_name[n] = t
          /\ BuiltDims(std)[n].exists
          /\ db[t] = BuiltDims(std)[n]
    \/ \E n \in FactNames :
          /\ to_table_name[n] = t
          /\ BuiltFacts(std, dims)[n].exists
          /\ db[t] = BuiltFacts(std, dims)[n]

\* C14: after the load step of any run, every table of the warehouse holds
\* what a builder of the current run returned; no table holds the output of
\* an earlier run, also when the current run skipped that table
C14_LoadFreshness ==
    Loaded => \A t \in TableNames : db[t].exists => FromCurrentRun(t)

\* the cleaned sources of the pipeline with the standardized table, the
\* dimensions and the fact each one feeds
Sources ==
    {[clean |-> "cleaned_Walmart_customer_purchases", std |-> "std_customer_purchases",
      dims |-> {"DIM_CUSTOMER", "DIM_PAYMENT", "DIM_PRODUCT", "DIM_CATEGORY"},
      fact |-> "FACT_SALES"],
     [clean |-> "cleaned_Temp", std |-> "std_store_performance",
      dims |-> {"DIM_STORE", "DIM_DATE_STORE"},
      fact |-> "FACT_STORE_PERFORMANCE"],
     [clean |-> "cleaned_tmdt_walmart", std |-> "std_ecommerce_sales",
      dims |-> {"DIM_ECOMMERCE_PRODUCT", "DIM_ECOMMERCE_CATEGORY", "DIM_ECOMMERCE_BRAND"},
      fact |-> "FACT_ECOMMERCE_SALES"]}

\* what the standardizers of the current run return
BuiltStd(cleanDir) ==
    [std_customer_purchases |->
         standardize_customer_purchases(cleanDir["cleaned_Walmart_customer_purchases"]),
     std_store_performance |-> standardize_store_performance(cleanDir["cleaned_Temp"]),
     std_ecommerce_sales |-> standardize_ecommerce_sales(cleanDir["cleaned_tmdt_walmart"])]

\* the run skipped everything derived from source s
SourceSkipped(s) ==
    /\ ~BuiltStd(clean)[s.std].exists
    /\ \A n \in s.dims : ~BuiltDims(std)[n].exists
    /\ ~BuiltFacts(std, dims)[s.fact].exists

\* the run built the standardized table and the fact of source s
SourceBuilt(s) ==
    /\ BuiltStd(clean)[s.std].exists
    /\ BuiltFacts(std, dims)[s.fact].exists

\* C15: in every run in which a cleaned source file is absent, the
\* standardized table, the dimensions and the fact derived from it are
\* skipped by that run (their builders return None), while the tables of
\* the sources that are present are still built
C15_MissingInputSkip ==
    FactsBuilt =>
        \A s \in Sources :
            /\ ~clean[s.clean].exists => SourceSkipped(s)
            /\ (clean[s.clean].exists /\ \E o \in Sources : ~clean[o.clean].exists)
                  => SourceBuilt(s)

FactsRan == pc \in {"facts_built", "loaded", "checked", "done", "crashed"}

\* a fact whose source table is present references a dimension that is
\* absent when FactBuilder runs
SparseDimensions ==
    \E i \in 1..Len(FactSpecs) :
        /\ \E s \in Sources : s.fact = FactSpecs[i].name /\ std[s.std].exists
        /\ \E k \in 1..Len(FactSpecs[i].fks) : ~dims[FactSpecs[i].fks[k][2]].exists

\* C16: when a dimension referenced by a fact is absent while the fact's
\* source table is present, FactBuilder.build_all does not raise, the facts
\* whose source is present are built, and main goes on to the load, quality
\* and export steps
C16_SparseDimensionsTolerated ==
    (FactsRan /\ SparseDimensions) =>
        /\ pc # "crashed"
        /\ \A s \in Sources : std[s.std].exists => facts[s.fact].exists

\* C17: when the standardized source of a fact is missing, its builder
\* returns None and writes no file, and build_all builds each other fact
\* whose source is present
C17_FactSourceIsolation ==
    FactsRan =>
        \A s \in Sources :
            /\ ~std[s.std].exists =>
                  /\ ~BuiltFacts(std, dims)[s.fact].exists
                  /\ ~facts[s.fact].exists
            /\ (std[s.std].exists /\ \E o \in Sources : ~std[o.std].exists) =>
                  /\ facts[s.fact].exists
                  /\ facts[s.fact] = BuiltFacts(std, dims)[s.fact]

\* the positions of main, in the order of its steps
StepOrder ==
    <<"start", "standardized", "dims_built", "facts_built", "loaded", "checked", "done">>

\* a step of main leads from one position to the next one
OrderedStep ==
    pc' # pc => \E i \in 1..(Len(StepOrder) - 1) : pc = StepOrder[i] /\ pc' = StepOrder[i + 1]

\* C18: every step of main leads to the next step of the fixed order
\* standardize, build dimensions, build facts, load, quality checks, export;
\* no step is repeated or left out, whatever the quality checks report
C18_OrchestratorOrdering == [][OrderedStep]_vars

\* C19: an exception of the export step never ends main abnormally and does
\* not change its result: main returns report.passed of the quality step,
\* and the process exit code is 0 iff report.passed
C19_ExportFailureIsolated ==
    /\ pc = "checked" => ENABLED Export
    /\ pc = "done" =>
          /\ exported \in {"ok", "failed"}
          /\ ret = ReportPassed(report)
          /\ ExitCode(ret) = 0 <=> ReportPassed(report)

\* a finished run whose export failed and whose quality report passed
C19_Witness ==
    /\ pc = "done"
    /\ exported = "failed"
    /\ ReportPassed(report)
    /\ ret = TRUE

(***************************************************************************)
(* The pipeline over e-commerce listings of every combination of prices    *)
(***************************************************************************)
\* 160 with 137 or 75 are listings whose percentage lies midway between two
\* hundredths (14.375, 53.125) and whose float lies off the midpoint
ListPrices == {NULL, Some(-10), Some(0), Some(3), Some(100), Some(160)}

SalePrices == {NULL, Some(-5), Some(0), Some(2), Some(75), Some(120), Some(137)}

\* cleaned_tmdt_walmart.csv with one listing
ListingFile(lp, sp) ==
    Frame(EcomCols,
          <<[product_name |-> Some(NameLamp), brand |-> Some(BrandIkea),
             category |-> Some(<<"Home">>), list_price |-> lp, sale_price |-> sp]>>)

DiscountInit ==
    /\ raw = RawGood
    /\ \E lp \in ListPrices, sp \in SalePrices :
          clean = CleanDir([DefaultInput EXCEPT !.ecom = ListingFile(lp, sp)],
                           SilverAuxGood)
    /\ std = EmptyDir(StdNames)
    /\ pc = "start"
    /\ dims = EmptyDir(DimNames)
    /\ facts = EmptyDir(FactNames)
    /\ db = EmptyDir(TableNames)
    /\ report = <<>>
    /\ exported = "no"
    /\ ret = "none"
    /\ gate = GateIdle
    /\ input = NoCall
    /\ output = NoCall

DiscountSpec == DiscountInit /\ [][Next]_vars

\* the discount columns of a listing with both prices agree with the prices
DiscountDerived(r) ==
    (~IsNull(r.list_price) /\ ~IsNull(r.sale_price)) =>
        /\ ~IsNull(r.discount_amount)
        /\ Val(r.discount_amount) >= 0
        /\ Val(r.discount_amount) =
              (IF Val(r.list_price) - Val(r.sale_price) > 0
               THEN Val(r.list_price) - Val(r.sale_price) ELSE 0)
        /\ Val(r.list_price) # 0 =>
              /\ ~IsNull(r.discount_pct)
              /\ ~Val(r.discount_pct).inf
              \* discount_pct is discount_amount / list_price * 100 to two decimals
              /\ 2 * (IF Val(r.list_price) > 0 THEN 1 ELSE -1)
                   * (Val(r.discount_pct).hundredths * Val(r.list_price)
                        - Val(r.discount_amount) * 10000)
                     \in (-(IF Val(r.list_price) > 0 THEN Val(r.list_price)
                            ELSE -Val(r.list_price)))
                         ..(IF Val(r.list_price) > 0 THEN Val(r.list_price)
                            ELSE -Val(r.list_price))

\* C20: for every listing discount_amount = max(list_price - sale_price, 0),
\* never negative, discount_pct = discount_amount / list_price * 100, and no
\* row of FACT_ECOMMERCE_SALES carries an undefined or infinite discount_pct
C20_DiscountDerivation ==
    FactsBuilt =>
        /\ \A i \in 1..Len(std["std_ecommerce_sales"].rows) :
              DiscountDerived(std["std_ecommerce_sales"].rows[i])
        /\ \A i \in 1..Len(facts["FACT_ECOMMERCE_SALES"].rows) :
              /\ ~IsNull(facts["FACT_ECOMMERCE_SALES"].rows[i].discount_pct)
              /\ ~Val(facts["FACT_ECOMMERCE_SALES"].rows[i].discount_pct).inf
              /\ ~IsNull(facts["FACT_ECOMMERCE_SALES"].rows[i].discount_amount)
              /\ Val(facts["FACT_ECOMMERCE_SALES"].rows[i].discount_amount) >= 0


(***************************************************************************)
(* One DataQualityChecker.run_all_checks call, stage by stage: after the   *)
(* pipeline has loaded the warehouse, or before it has run.                *)
(***************************************************************************)
\* store rows whose sale_date does not parse: no DIM_DATE_STORE is built
UndatedStore ==
    Frame(StoreCols,
          <<[store_id |-> Some(1), sale_date |-> Some(<<2010, 2, 30>>),
             weekly_sales |-> Some(1000), temperature |-> Some(31),
             fuel_price |-> Some(3)]>>)

\* the disks a checked run starts from: data/Raw and the cleaned files of
\* the checks in every condition, and pipeline inputs that pass, that fail
\* the golden checks, that are absent, or that build no DIM_DATE_STORE
StageDisks ==
    {[raw |-> r, clean |-> CleanDir(DefaultInput, a), std |-> EmptyDir(StdNames)] :
        r \in RawDirs, a \in SilverAuxDirs}
    \cup {[raw |-> RawGood, clean |-> CleanDir(in, SilverAuxGood),
           std |-> EmptyDir(StdNames)] :
        in \in GateInputs \cup MissingInputs
                \cup {[DefaultInput EXCEPT !.store = UndatedStore]}}

StageInit ==
    /\ \E d \in StageDisks : raw = d.raw /\ clean = d.clean /\ std = d.std
    /\ pc = "start"
    /\ dims = EmptyDir(DimNames)
    /\ facts = EmptyDir(FactNames)
    /\ db = EmptyDir(TableNames)
    /\ report = <<>>
    /\ exported = "no"
    /\ ret = "none"
    /\ gate = GateIdle
    /\ input = NoCall
    /\ output = NoCall

\* checker = DataQualityChecker(base_dir); checker.run_all_checks(): by
\* the pipeline once the warehouse is loaded, or by a quality gate before
\* the pipeline has run
StartChecks ==
    /\ pc \in {"start", "loaded"}
    /\ pc' = "run_all_checks"
    /\ report' = <<>>
    /\ input' = [fn |-> "run_all_checks", at |-> pc]
    /\ UNCHANGED <<raw, clean, std, dims, facts, db, exported, ret, gate, output>>

\* the steps of run_all_checks in the order of its statements
RunAllChecksStepsGoldenFirst ==
    <<"validate_golden_layer", "validate_raw_layer", "validate_silver_layer",
      "summary", "to_json">>

RunAllChecksSteps ==
    <<"validate_raw_layer", "validate_silver_layer", "validate_golden_layer",
      "summary", "to_json">>

\* the statement run_all_checks executes after the step named by pc
NextStep ==
    IF pc = "run_all_checks" THEN RunAllChecksSteps[1]
    ELSE IF pc \notin Range(RunAllChecksSteps) THEN "none"
    ELSE LET k == CHOOSE i \in 1..Len(RunAllChecksSteps) : RunAllChecksSteps[i] = pc
         IN  IF k < Len(RunAllChecksSteps) THEN RunAllChecksSteps[k + 1] ELSE "return"

\* QualityReport.add for each result of a check, in order
AddedInPlaceOfResults(results, new) == new

Added(results, new) == results \o new

\* a stage validator ran: its results are added to the report, its return
\* value and the length of the report before the call are kept
Validated(name, v) ==
    /\ NextStep = name
    /\ pc' = name
    /\ report' = Added(report, v.results)
    /\ output' = [fn |-> name, ret |-> v.ret, from |-> Len(report)]
    /\ UNCHANGED <<raw, clean, std, dims, facts, db, exported, ret, gate, input>>

ValidateRaw == Validated("validate_raw_layer", validate_raw_layer(raw))

ValidateSilver == Validated("validate_silver_layer", validate_silver_layer(clean))

ValidateGolden == Validated("validate_golden_layer", validate_golden_layer(dims, facts))

\* summary = self.report.summary, logged
Summarize ==
    /\ NextStep = "summary"
    /\ pc' = "summary"
    /\ output' = [fn |-> "summary", summary |-> summary(report),
                  passed |-> ReportPassed(report)]
    /\ UNCHANGED <<raw, clean, std, dims, facts, db, report, exported, ret, gate,
                   input>>

\* self.report.to_json(report_path)
ExportReport ==
    /\ NextStep = "to_json"
    /\ pc' = "to_json"
    /\ output' = [fn |-> "to_json", summary |-> summary(report), results |-> report]
    /\ UNCHANGED <<raw, clean, std, dims, facts, db, report, exported, ret, gate,
                   input>>

StageNext ==
    \/ Standardize
    \/ BuildDimensions
    \/ BuildFacts
    \/ LoadWarehouse
    \/ StartChecks
    \/ ValidateRaw
    \/ ValidateSilver
    \/ ValidateGolden
    \/ Summarize
    \/ ExportReport

StageSpec == StageInit /\ [][StageNext]_vars

StageRank(stage) ==
    IF stage = "raw" THEN 1
    ELSE IF stage = "silver" THEN 2
    ELSE IF stage \in {"golden_dim", "golden_fact"} THEN 3
    ELSE 0

StagesRecorded == {StageRank(report[i].stage) : i \in 1..Len(report)}

\* C21: within one run_all_checks call the stages are validated in the
\* order raw, silver, golden: every raw result precedes every silver
\* result, which precedes every golden result, a later stage is validated
\* only after the earlier ones, and the report is summarized and exported
\* only after golden validation, over the results of all three stages
C21_StageOrder ==
    /\ \A i, j \in 1..Len(report) :
          i < j => StageRank(report[i].stage) <= StageRank(report[j].stage)
    /\ StagesRecorded \in {{}, {1}, {1, 2}, {1, 2, 3}}
    /\ pc = "validate_raw_layer" => StagesRecorded = {1}
    /\ pc = "validate_silver_layer" => StagesRecorded = {1, 2}
    /\ pc \in {"validate_golden_layer", "summary", "to_json"} => StagesRecorded = {1, 2, 3}
    /\ output.fn \in {"summary", "to_json"} =>
          /\ StagesRecorded = {1, 2, 3}
          /\ output.summary.total_checks = Len(report)
    /\ output.fn = "to_json" => output.results = report

\* the report was exported with results of all three stages
C21_Witness ==
    /\ pc = "to_json"
    /\ output.fn = "to_json"
    /\ \E i, j, k \in 1..Len(report) :
          /\ i < j /\ j < k
          /\ report[i].stage = "raw" /\ report[j].stage = "silver"
          /\ report[k].stage = "golden_fact"

IsPrefix(s, t) == Len(s) <= Len(t) /\ SubSeq(t, 1, Len(s)) = s

\* C22: results are append-only: every stage validator, and every check it
\* runs, only appends to report.results; none removes, replaces or reorders
\* a result, so the list before a step is a prefix of the list after it
C22_AppendOnly == [][IsPrefix(report, report')]_vars

\* the silver validator added results behind those of the raw validator
C22_Witness ==
    /\ output.fn = "validate_silver_layer"
    /\ output.from > 0
    /\ Len(report) > output.from
    /\ report[output.from].stage = "raw"
    /\ report[Len(report)].stage = "silver"

\* the band whose label contains the age
AgeBandLabel(a) ==
    IF a < 18 THEN "<18"
    ELSE IF a <= 30 THEN "18-30"
    ELSE IF a <= 45 THEN "31-45"
    ELSE IF a <= 60 THEN "46-60"
    ELSE "60+"

\* C23: every DIM_CUSTOMER row with an age carries the age group whose
\* label contains the age: "<18" below 18, "18-30" for 18..30, "31-45",
\* "46-60", and "60+" above 60, the boundary ages 18, 30, 45 and 60 included
C23_AgeBands ==
    dims["DIM_CUSTOMER"].exists =>
        \A i \in 1..Len(dims["DIM_CUSTOMER"].rows) :
            LET r == dims["DIM_CUSTOMER"].rows[i]
            IN  ~IsNull(r.age) => r.age_group = Some(AgeBandLabel(Val(r.age)))


(***************************************************************************)
(* Pipeline runs over a store file with one weekly reading, for            *)
(* temperatures at and around the band thresholds.                         *)
(***************************************************************************)
Temperatures ==
    {NULL} \cup {Some(t) : t \in {-1000, -999, -998, 0, 31, 32, 33, 49, 50, 51,
                                  69, 70, 71, 84, 85, 86, 998, 999, 1000}}

\* cleaned_Temp.csv with one reading
ReadingFile(t) ==
    Frame(StoreCols,
          <<[store_id |-> Some(1), sale_date |-> Some(<<2010, 2, 5>>),
             weekly_sales |-> Some(1000), temperature |-> t,
             fuel_price |-> Some(3)]>>)

TempInit ==
    /\ raw = RawGood
    /\ \E t \in Temperatures :
          clean = CleanDir([DefaultInput EXCEPT !.store = ReadingFile(t)],
                           SilverAuxGood)
    /\ std = EmptyDir(StdNames)
    /\ pc = "start"
    /\ dims = EmptyDir(DimNames)
    /\ facts = EmptyDir(FactNames)
    /\ db = EmptyDir(TableNames)
    /\ report = <<>>
    /\ exported = "no"
    /\ ret = "none"
    /\ gate = GateIdle
    /\ input = NoCall
    /\ output = NoCall

TempSpec == TempInit /\ [][Next]_vars

\* the band names of the specification
TempBandName(t) ==
    IF t < 32 THEN "Freezing"
    ELSE IF t < 50 THEN "Cold"
    ELSE IF t < 70 THEN "Cool"
    ELSE IF t < 85 THEN "Warm"
    ELSE "Hot"

\* C24: for every reading with a temperature t, the temp_category_key of
\* its FACT_STORE_PERFORMANCE row identifies the one DIM_TEMPERATURE row
\* whose category is the band of t and whose interval
\* [temp_range_min, temp_range_max) contains t
C24_TemperatureBandsAgree ==
    (facts["FACT_STORE_PERFORMANCE"].exists /\ dims["DIM_TEMPERATURE"].exists) =>
        \A i \in 1..Len(facts["FACT_STORE_PERFORMANCE"].rows) :
            LET r == facts["FACT_STORE_PERFORMANCE"].rows[i]
                t == clean["cleaned_Temp"].rows[i].temperature
                D == dims["DIM_TEMPERATURE"].rows
            IN  ~IsNull(t) =>
                    /\ r.temperature = t
                    /\ \E k \in 1..Len(D) :
                          /\ D[k].temp_category_key = r.temp_category_key
                          /\ D[k].temp_category = TempBandName(Val(t))
                          /\ D[k].temp_range_min <= Val(t)
                          /\ Val(t) < D[k].temp_range_max
                          /\ \A j \in 1..Len(D) :
                                D[j].temp_category_key = r.temp_category_key => j = k


(***************************************************************************)
(* check_null_ratio on tables with and without the listed columns          *)
(***************************************************************************)
NullTableSizes == {0, 19, 20, 21, 40}

MaxNulls == 3

\* column "a" starts with na missing values, column "b" ends with nb
NullRows(n, na, nb) ==
    [i \in 1..n |-> [a |-> IF i <= na THEN NULL ELSE Some(i),
                     b |-> IF i > n - nb THEN NULL ELSE Some(i)]]

NullFrames ==
    {Frame(cols, [i \in 1..n |-> [c \in cols |-> NullRows(n, na, nb)[i][c]]]) :
        cols \in {{"a", "b"}, {"a"}, {"b"}},
        n \in NullTableSizes, na \in 0..MaxNulls, nb \in 0..MaxNulls}
    \cup {GenFile({"v"}, 1, 0)}

NullCheckInit ==
    /\ UnitDisk
    /\ gate = GateIdle
    /\ \E df \in NullFrames, pct \in {DefaultMaxNullPct, 2 * DefaultMaxNullPct} :
          input = [fn |-> "check_null_ratio", df |-> df,
                   critical_columns |-> <<"a", "b">>, max_pct |-> pct]
    /\ output = NoCall

\* checker.check_null_ratio(df, "silver", "T", critical_columns, max_null_ratio)
CheckNullRatio ==
    /\ input.fn = "check_null_ratio"
    /\ output = NoCall
    /\ LET c == check_null_ratio(input.df, "silver", "T", input.critical_columns,
                                 input.max_pct)
       IN  /\ output' = [fn |-> "check_null_ratio", ret |-> c.ret]
           /\ report' = Added(report, c.results)
    /\ UNCHANGED <<pc, raw, clean, std, dims, facts, db, exported, ret, gate, input>>

NullCheckNext == CheckNullRatio

NullCheckSpec == NullCheckInit /\ [][NullCheckNext]_vars

\* the listed critical columns, in order, and those the table holds
Listed == input.critical_columns

ListedPresent == SelectSeq(Listed, LAMBDA c : c \in input.df.cols)

\* null_count / total <= threshold, an empty table counting as ratio 0
WithinThreshold(col) ==
    LET total == Len(input.df.rows)
        nulls == Cardinality({i \in 1..total : input.df.rows[i][col] = NULL})
    IN  total = 0 \/ nulls * 100 <= input.max_pct * total

\* C25 as stated: check_null_ratio records exactly one result per listed
\* critical column, each passing iff null_count / total <= threshold, and
\* returns True iff every listed critical column passed
C25_OneResultPerListedColumn ==
    output.fn = "check_null_ratio" =>
        /\ Len(report) = Len(Listed)
        /\ \A k \in 1..Len(Listed) :
              /\ report[k].column = Listed[k]
              /\ Listed[k] \in input.df.cols
              /\ report[k].passed <=> WithinThreshold(Listed[k])
        /\ output.ret <=> \A k \in 1..Len(Listed) :
              Listed[k] \in input.df.cols /\ WithinThreshold(Listed[k])

\* C25 amended: check_null_ratio records exactly one result per listed
\* critical column that the table holds and none for a listed column the
\* table lacks, each result passing iff null_count / total <= threshold
\* (boundary value passing, an empty table counting as ratio 0), and
\* returns True iff every recorded result passed
C25_OneResultPerPresentColumn ==
    output.fn = "check_null_ratio" =>
        /\ Len(report) = Len(ListedPresent)
        /\ \A k \in 1..Len(ListedPresent) :
              /\ report[k].check_name = "null_check"
              /\ report[k].column = ListedPresent[k]
              /\ report[k].passed <=> WithinThreshold(ListedPresent[k])
        /\ output.ret <=> \A k \in 1..Len(report) : report[k].passed

\* the default threshold met exactly by one column (1 of 20 missing) and
\* exceeded by the other
C25_Witness ==
    /\ output.fn = "check_null_ratio"
    /\ input.max_pct = DefaultMaxNullPct
    /\ Len(input.df.rows) = 20
    /\ Len(report) = 2
    /\ report[1].passed /\ report[1].details.null_count = 1
    /\ ~report[2].passed
    /\ ~output.ret


\* the calendar runs from the first to the last day of the default range
DefaultCalendar(file) ==
    /\ file.rows[1].full_date = Some(<<2020, 1, 1>>)
    /\ file.rows[Len(file.rows)].full_date = Some(<<2030, 12, 31>>)
    /\ Len(file.rows) = Ymd2Ord(<<2030, 12, 31>>) - Ymd2Ord(<<2020, 1, 1>>) + 1

PurchaseDays == ValidDays(std["std_customer_purchases"], "purchase_date")

StoreDays == ValidDays(std["std_store_performance"], "sale_date")

\* DIM_DATE runs from 30 days before the first to 90 days after the last
\* parseable purchase date, or over the default range when there is none
DimDateRange ==
    /\ dims["DIM_DATE"].exists
    /\ IF PurchaseDays # {} THEN CalendarSpans(dims["DIM_DATE"], PurchaseDays, 30, 90)
       ELSE DefaultCalendar(dims["DIM_DATE"])

\* C26 as stated: each calendar dimension spans the parseable event dates of
\* its source (DIM_DATE padded to [min - 30, max + 90] days, DIM_DATE_STORE
\* exactly [min, max]), and a source without a parseable date gives the
\* default range 2020-01-01..2030-12-31 instead of no calendar
C26_CalendarRangeOrDefault ==
    DimsBuilt =>
        /\ DimDateRange
        /\ std["std_store_performance"].exists =>
              /\ dims["DIM_DATE_STORE"].exists
              /\ IF StoreDays # {} THEN CalendarSpans(dims["DIM_DATE_STORE"], StoreDays, 0, 0)
                 ELSE DefaultCalendar(dims["DIM_DATE_STORE"])

\* C26 amended: DIM_DATE spans [min - 30, max + 90] days of the parseable
\* purchase dates and falls back to 2020-01-01..2030-12-31 when there is
\* none; DIM_DATE_STORE spans exactly [min, max] of the parseable store
\* dates and is not produced at all when there is none
C26_CalendarRange ==
    DimsBuilt =>
        /\ DimDateRange
        /\ std["std_store_performance"].exists =>
              IF StoreDays # {}
              THEN /\ dims["DIM_DATE_STORE"].exists
                   /\ CalendarSpans(dims["DIM_DATE_STORE"], StoreDays, 0, 0)
              ELSE ~dims["DIM_DATE_STORE"].exists

\* a run whose store readings carry no parseable date: no store calendar,
\* and a purchase calendar padded around the purchase dates
C26_Witness ==
    /\ DimsBuilt
    /\ std["std_store_performance"].exists
    /\ Len(std["std_store_performance"].rows) > 0
    /\ StoreDays = {}
    /\ ~dims["DIM_DATE_STORE"].exists
    /\ PurchaseDays # {}
    /\ ~DefaultCalendar(dims["DIM_DATE"])

\* a run whose purchases carry no parseable date: the default calendar
C26_WitnessDefault ==
    /\ DimsBuilt
    /\ std["std_customer_purchases"].exists
    /\ Len(std["std_customer_purchases"].rows) > 0
    /\ PurchaseDays = {}
    /\ DefaultCalendar(dims["DIM_DATE"])


StageValidators == {"validate_raw_layer", "validate_silver_layer", "validate_golden_layer"}

\* the positions in the report of the results the last validator call added
AddedByCall == (output.from + 1)..Len(report)

\* C28: a stage validator returns True if and only if every result it added
\* to the report during that call passed: it never returns True after
\* recording a failure, nor False without having recorded one
C28_ValidatorVerdict ==
    output.fn \in StageValidators =>
        (output.ret <=> \A i \in AddedByCall : report[i].passed)

\* the silver validator returned False over a single failed result, a
\* duplicated unique key, behind a raw stage that passed
C28_Witness ==
    /\ output.fn = "validate_silver_layer"
    /\ ~output.ret
    /\ Cardinality({i \in AddedByCall : ~report[i].passed}) = 1
    /\ \E i \in AddedByCall : (~report[i].passed) /\ (report[i].check_name = "unique_key")
    /\ \A i \in 1..output.from : report[i].passed

\* the declared foreign keys: <<fact, fk column, dimension>>
DeclaredFks ==
    UNION {{<<FactSpecs[i].name, FactSpecs[i].fks[k][1], FactSpecs[i].fks[k][2]>> :
                k \in 1..Len(FactSpecs[i].fks)} : i \in 1..Len(FactSpecs)}

\* the results of the foreign-key check of fk, among those the call added
FkResults(fk) ==
    {i \in AddedByCall : /\ report[i].check_name = "fk_integrity"
                         /\ report[i].table_name = fk[1]
                         /\ report[i].column = fk[2]}

FkSkipped(fk) == facts[fk[1]].exists /\ FkResults(fk) = {}

\* C29: validate_golden_layer skips a foreign-key check whenever the
\* referenced dimension file is missing, and returns True only when all 11
\* dimension files and all 3 fact files exist and each of the 5 + 3 + 3
\* declared foreign-key checks was executed and passed: a skipped check
\* never coexists with a True result
C29_NoSkippedFkUnderTrue ==
    output.fn = "validate_golden_layer" =>
        /\ \A fk \in DeclaredFks :
              (facts[fk[1]].exists /\ ~dims[fk[3]].exists) => FkSkipped(fk)
        /\ \A fk \in DeclaredFks : FkSkipped(fk) => ~output.ret
        /\ output.ret =>
              /\ \A d \in DimNames : dims[d].exists
              /\ \A f \in FactNames : facts[f].exists
              /\ Cardinality(DimNames) = 11 /\ Cardinality(FactNames) = 3
              /\ Cardinality(DeclaredFks) = 11
              /\ \A fk \in DeclaredFks :
                    /\ Cardinality(FkResults(fk)) = 1
                    /\ \A i \in FkResults(fk) : report[i].passed

\* DIM_DATE_STORE is missing: the date_key check of FACT_STORE_PERFORMANCE
\* was skipped, every executed foreign-key check passed, and the validator
\* returned False
C29_Witness ==
    /\ output.fn = "validate_golden_layer"
    /\ ~dims["DIM_DATE_STORE"].exists
    /\ FkSkipped(<<"FACT_STORE_PERFORMANCE", "date_key", "DIM_DATE_STORE">>)
    /\ \A i \in AddedByCall : report[i].check_name = "fk_integrity" => report[i].passed
    /\ Cardinality({i \in AddedByCall : report[i].check_name = "fk_integrity"}) = 10
    /\ ~output.ret

\* all eleven foreign-key checks ran and passed, and the validator returned True
C29_WitnessTrue ==
    /\ output.fn = "validate_golden_layer"
    /\ output.ret
    /\ Cardinality({i \in AddedByCall : report[i].check_name = "fk_integrity"}) = 11


(***************************************************************************)
(* The standalone validator of Star Schema 1 (validate_schema.py), run on  *)
(* the golden directories a run of the pipeline left behind.               *)
(***************************************************************************)
\* check_primary_key
vs_check_primary_key(df, pk) ==
    IF pk \notin df.cols THEN FALSE
    ELSE LET keys  == Column(df.rows, pk)
             dup   == DuplicatedCount(keys)
             nulls == Len(SelectSeq(keys, IsNull))
         IN  dup = 0 /\ nulls = 0

\* check_foreign_key: null keys only warn, keys absent from the dimension fail
vs_check_foreign_key(fact, dim, fk, pk) ==
    IF fk \notin fact.cols THEN FALSE
    ELSE LET keys      == DropNa(Column(fact.rows, fk))
             non_match == Len(SelectSeq(keys, LAMBDA c : c \notin Range(Column(dim.rows, pk))))
         IN  non_match = 0

\* the files of validate_dimensions with their primary keys
SchemaDimFiles ==
    <<[name |-> "DIM_PRODUCT", pk |-> "product_key"],
      [name |-> "DIM_CUSTOMER", pk |-> "customer_key"],
      [name |-> "DIM_DATE", pk |-> "date_key"],
      [name |-> "DIM_PAYMENT", pk |-> "payment_key"],
      [name |-> "DIM_CATEGORY", pk |-> "category_key"]>>

\* validate_dimensions: the names of the dimensions that exist with a valid key
validate_dimensions(dimDir) ==
    {SchemaDimFiles[i].name :
        i \in {j \in 1..Len(SchemaDimFiles) :
                  /\ dimDir[SchemaDimFiles[j].name].exists
                  /\ vs_check_primary_key(dimDir[SchemaDimFiles[j].name],
                                          SchemaDimFiles[j].pk)}}

\* validate_fact_sales, called with all five dimensions loaded
validate_fact_sales(dimDir, factDir) ==
    LET fact == factDir["FACT_SALES"]
    IN  IF ~fact.exists THEN FALSE
        ELSE /\ vs_check_primary_key(fact, "transaction_id")
             /\ \A i \in 1..Len(SchemaDimFiles) :
                   vs_check_foreign_key(fact, dimDir[SchemaDimFiles[i].name],
                                        SchemaDimFiles[i].pk, SchemaDimFiles[i].pk)

\* validate_schema.main
validate_schema_main(dimDir, factDir) ==
    IF validate_dimensions(dimDir) # {SchemaDimFiles[i].name : i \in 1..Len(SchemaDimFiles)}
    THEN FALSE
    ELSE validate_fact_sales(dimDir, factDir)

\* python validate_schema.py, after a run of the pipeline
ValidateSchema ==
    /\ pc \in {"done", "crashed"}
    /\ output = NoCall
    /\ output' = [fn |-> "validate_schema.main", ret |-> validate_schema_main(dims, facts)]
    /\ UNCHANGED <<pc, raw, clean, std, dims, facts, db, report, exported, ret, gate,
                   input>>

\* the purchases, the one source of Star Schema 1, vary over their pool or
\* are absent
SchemaInit ==
    /\ \E f \in FilesOver(PurchaseCols, PurchasePool) :
          clean = CleanDir([DefaultInput EXCEPT !.purchases = f], SilverAuxGood)
    /\ raw = RawGood
    /\ std = EmptyDir(StdNames)
    /\ pc = "start"
    /\ dims = EmptyDir(DimNames)
    /\ facts = EmptyDir(FactNames)
    /\ db = EmptyDir(TableNames)
    /\ report = <<>>
    /\ exported = "no"
    /\ ret = "none"
    /\ gate = GateIdle
    /\ input = NoCall
    /\ output = NoCall

SchemaNext == Next \/ ValidateSchema

SchemaSpec == SchemaInit /\ [][SchemaNext]_vars

\* the key column holds no null and no value twice
ValidKey(file, col) ==
    /\ col \in file.cols
    /\ \A i \in 1..Len(file.rows) : ~IsNull(file.rows[i][col])
    /\ Cardinality({file.rows[i][col] : i \in 1..Len(file.rows)}) = Len(file.rows)

\* the five dimension files and FACT_SALES exist, every primary key is
\* unique and non-null, and every foreign-key value of FACT_SALES is a key
\* of its dimension
StarSchema1Valid ==
    /\ \A k \in 1..Len(SchemaDimFiles) :
          /\ dims[SchemaDimFiles[k].name].exists
          /\ ValidKey(dims[SchemaDimFiles[k].name], SchemaDimFiles[k].pk)
    /\ facts["FACT_SALES"].exists
    /\ ValidKey(facts["FACT_SALES"], "sale_id")
    /\ \A k \in 1..Len(SchemaDimFiles) :
          \A i \in 1..Len(facts["FACT_SALES"].rows) :
              \E j \in 1..Len(dims[SchemaDimFiles[k].name].rows) :
                  dims[SchemaDimFiles[k].name].rows[j][SchemaDimFiles[k].pk]
                      = facts["FACT_SALES"].rows[i][SchemaDimFiles[k].pk]

\* C27: validate_schema.main returns True whenever the five dimension files
\* and FACT_SALES exist, every primary key is unique and non-null and every
\* FACT_SALES foreign-key value is present in its dimension, and returns
\* False only when a file is missing, a key invalid or a foreign key orphaned
C27_SchemaValidatorVerdict ==
    output.fn = "validate_schema.main" => (output.ret <=> StarSchema1Valid)


(***************************************************************************)
(* Pipeline runs over purchases whose product names are missing, not text, *)
(* or made of separators only.                                             *)
(***************************************************************************)
MaxNameRows == 2

\* product_name cells as read_csv yields them: a missing or numeric value,
\* "--", " ", and two names of products
ProductNameCells ==
    {NULL, Some(<<45, 45>>), Some(<<32>>), Some(NameSonyTV), Some(NameLamp)}

NamedPurchase(name) ==
    [customer_id |-> Some(1), age |-> Some(25), product_name |-> name,
     category |-> Some("Electronics"), payment_method |-> Some("Card"),
     purchase_date |-> Some(<<1, 15, 24>>), purchase_amount |-> Some(100)]

NamedPurchaseFiles ==
    {Frame(PurchaseCols, [i \in 1..Len(names) |-> NamedPurchase(names[i])]) :
        names \in NonEmptySeqs(ProductNameCells, MaxNameRows)}

NamelessInit ==
    /\ raw = RawGood
    /\ \E f \in NamedPurchaseFiles :
          clean = CleanDir([DefaultInput EXCEPT !.purchases = f], SilverAuxGood)
    /\ std = EmptyDir(StdNames)
    /\ pc = "start"
    /\ dims = EmptyDir(DimNames)
    /\ facts = EmptyDir(FactNames)
    /\ db = EmptyDir(TableNames)
    /\ report = <<>>
    /\ exported = "no"
    /\ ret = "none"
    /\ gate = GateIdle
    /\ input = NoCall
    /\ output = NoCall

NamelessSpec == NamelessInit /\ [][Next]_vars

\* the text holds a letter or a digit, so it does not normalize to ""
HasAlnum(text) ==
    \E k \in 1..Len(text) :
        \/ (48 <= text[k] /\ text[k] <= 57)
        \/ (65 <= text[k] /\ text[k] <= 90)
        \/ (97 <= text[k] /\ text[k] <= 122)

\* the product name is missing, not a string, or normalizes to ""
Nameless(name) == IsNull(name) \/ ~HasAlnum(Val(name))

CleanPurchases == clean["cleaned_Walmart_customer_purchases"]

\* C30: a purchase row whose product name is missing, not a string, or
\* normalizes to the empty string gets a null product_id, gives no row to
\* product_master nor to DIM_PRODUCT, which hold products of named rows
\* only, and is retained in FACT_SALES with product_key -1
C30_NamelessPurchases ==
    /\ std["std_customer_purchases"].exists =>
          /\ Len(std["std_customer_purchases"].rows) = Len(CleanPurchases.rows)
          /\ \A i \in 1..Len(CleanPurchases.rows) :
                Nameless(CleanPurchases.rows[i].product_name)
                    <=> IsNull(std["std_customer_purchases"].rows[i].product_id)
    /\ std["product_master"].exists =>
          /\ \A k \in 1..Len(std["product_master"].rows) :
                \E i \in 1..Len(CleanPurchases.rows) :
                    /\ ~Nameless(CleanPurchases.rows[i].product_name)
                    /\ std["product_master"].rows[k].product_id
                          = std["std_customer_purchases"].rows[i].product_id
          /\ Len(std["product_master"].rows)
                = Cardinality({std["std_customer_purchases"].rows[i].product_id :
                                  i \in 1..Len(CleanPurchases.rows)} \ {NULL})
    /\ dims["DIM_PRODUCT"].exists =>
          /\ Len(dims["DIM_PRODUCT"].rows) = Len(std["product_master"].rows)
          /\ \A k \in 1..Len(dims["DIM_PRODUCT"].rows) :
                /\ ~IsNull(dims["DIM_PRODUCT"].rows[k].product_id)
                /\ dims["DIM_PRODUCT"].rows[k].product_id
                      = std["product_master"].rows[k].product_id
    /\ facts["FACT_SALES"].exists =>
          /\ Len(facts["FACT_SALES"].rows) = Len(CleanPurchases.rows)
          /\ \A i \in 1..Len(CleanPurchases.rows) :
                Nameless(CleanPurchases.rows[i].product_name)
                    <=> facts["FACT_SALES"].rows[i].product_key = Some(-1)

\* a run over a purchase named "--" and a
\* purchase of a Sony TV: one product, and a fact row with product_key -1
C30_Witness ==
    /\ facts["FACT_SALES"].exists
    /\ Len(CleanPurchases.rows) = 2
    /\ CleanPurchases.rows[1].product_name = Some(<<45, 45>>)
    /\ CleanPurchases.rows[2].product_name = Some(NameSonyTV)
    /\ Len(dims["DIM_PRODUCT"].rows) = 1
    /\ facts["FACT_SALES"].rows[1].product_key = Some(-1)
    /\ facts["FACT_SALES"].rows[2].product_key = Some(1)

=============================================================================
